---- MODULE Spec2Model ----
(***************************************************************************)
(* Model of src/main.py: the media assembly pipeline (asset fetch with     *)
(* sharing-link recovery, asset verification, best-effort subtitles, and   *)
(* the render invocation with its failure classification).                 *)
(*                                                                         *)
(* Text is modelled as sequences of one-character strings so that the      *)
(* substring tests, prefix tests and regular-expression searches of the    *)
(* source are computed instead of assumed.                                 *)
(***************************************************************************)
EXTENDS Integers, Sequences, FiniteSets, TLC

\* ------------------------------------------------------------------------
\* Bounds
\* ------------------------------------------------------------------------
\* Longest URL, in tokens of UrlTokens, that the fetch specification draws.
MaxUrlTokens == 3

\* ------------------------------------------------------------------------
\* Text helpers
\* ------------------------------------------------------------------------
Range(s) == {s[i] : i \in 1..Len(s)}

\* Python: t in s
HasSub(s, t) ==
    \E i \in 1..(Len(s) - Len(t) + 1) : SubSeq(s, i, i + Len(t) - 1) = t

\* Python: s.startswith(t)
StartsWith(s, t) ==
    /\ Len(s) >= Len(t)
    /\ SubSeq(s, 1, Len(t)) = t

\* Python: not s.strip()   (only the space character is drawn as whitespace)
IsBlank(s) == \A i \in 1..Len(s) : s[i] = " "

\* The character class [a-zA-Z0-9_-] of the file id patterns.
IdChars ==
    {"a","b","c","d","e","f","g","h","i","j","k","l","m",
     "n","o","p","q","r","s","t","u","v","w","x","y","z",
     "A","B","C","D","E","F","G","H","I","J","K","L","M",
     "N","O","P","Q","R","S","T","U","V","W","X","Y","Z",
     "0","1","2","3","4","5","6","7","8","9","_","-"}

S_https == <<"h","t","t","p","s",":","/","/">>
S_http  == <<"h","t","t","p",":","/","/">>
S_drive == <<"d","r","i","v","e",".","g","o","o","g","l","e",".","c","o","m">>
S_idEq  == <<"i","d","=">>
S_d     == <<"/","d","/">>
S_filed == <<"f","i","l","e","/","d","/">>

\* The three patterns of extract_file_id_from_url, each a literal prefix
\* followed by the group ([a-zA-Z0-9_-]+).
patterns == <<S_idEq, S_d, S_filed>>

\* Positions where re.search can match  lit([a-zA-Z0-9_-]+)  in url.
MatchStarts(lit, url) ==
    {i \in 1..Len(url) :
        /\ i + Len(lit) <= Len(url)
        /\ SubSeq(url, i, i + Len(lit) - 1) = lit
        /\ url[i + Len(lit)] \in IdChars}

Min(S) == CHOOSE x \in S : \A y \in S : x <= y

\* match.group(1) of the leftmost match: the longest run of id characters.
MatchGroup(lit, url) ==
    LET i == Min(MatchStarts(lit, url))
        b == i + Len(lit)
        e == CHOOSE j \in b..Len(url) :
                /\ \A k \in b..j : url[k] \in IdChars
                /\ (j = Len(url) \/ url[j + 1] \notin IdChars)
    IN  SubSeq(url, b, e)

\* extract_file_id_from_url; None is the empty sequence (a matched group is
\* never empty, and the caller tests "if not file_id").
extract_file_id_from_url(url) ==
    LET hits == {p \in 1..Len(patterns) : MatchStarts(patterns[p], url) # {}}
    IN  IF hits = {} THEN << >>
        ELSE MatchGroup(patterns[Min(hits)], url)

\* ------------------------------------------------------------------------
\* URLs
\* ------------------------------------------------------------------------
UrlTokens == {S_https, S_drive, S_idEq, S_d, <<"x">>, <<"?">>}

RECURSIVE UrlsOfLen(_)
UrlsOfLen(n) ==
    IF n = 0 THEN {<< >>}
    ELSE {u \o t : u \in UrlsOfLen(n - 1), t \in UrlTokens}

\* Every URL of at most MaxUrlTokens tokens.
Urls == UNION {UrlsOfLen(n) : n \in 0..MaxUrlTokens}

\* The URLs a job request is drawn from: one of each class the handlers
\* distinguish (empty, no scheme, generic, sharing link with and without an
\* extractable identifier).
U_empty     == << >>
U_noscheme  == <<"x">>
U_generic   == S_https \o <<"x">>
U_driveId   == S_https \o S_drive \o S_d \o <<"x">>
U_driveNoId == S_http \o S_drive
JobUrls == {U_empty, U_noscheme, U_generic, U_driveId, U_driveNoId}

\* ------------------------------------------------------------------------
\* Working files
\* ------------------------------------------------------------------------
Variants == {"standard", "short"}

Path(stem, ext) == [stem |-> stem, ext |-> ext]
\* Python None for an optional path.
NoneP == Path("", "")

audio_path(v)    == IF v = "short" THEN Path("audio_short", "mp3") ELSE Path("audio", "mp3")
image_path(v)    == IF v = "short" THEN Path("image_short", "jpg") ELSE Path("image", "jpg")
video_path(v)    == IF v = "short" THEN Path("output_short", "mp4") ELSE Path("output", "mp4")
subs_path_ass(v) == IF v = "short" THEN Path("kara_short", "ass") ELSE Path("kara", "ass")
subs_path_srt(v) == IF v = "short" THEN Path("kara_short", "srt") ELSE Path("kara", "srt")

WorkingPaths(v) ==
    {audio_path(v), image_path(v), video_path(v), subs_path_ass(v), subs_path_srt(v)}
AllPaths == UNION {WorkingPaths(v) : v \in Variants}

\* What a path holds: nothing, a zero-length file, a file whose leading bytes
\* are an HTML page, a complete non-HTML file, or a non-empty file whose
\* writer stopped midway.
FileKinds == {"absent", "empty", "html", "data", "partial"}

Exists(f)  == f # "absent"
NonEmpty(f) == f \in {"html", "data", "partial"}

VARIABLES
    variant,      \* which handler serves the request: combine_media / combine_media_short
    audio_url,    \* request.audio_url
    image_url,    \* request.image_url
    pc,           \* position of the handler
    fs,           \* the ./tmp directory: path -> FileKinds
    subs_path,    \* local subs_path of the handler
    cmd,          \* the render command built by process_video(_short)
    proc,         \* what the external renderer did
    error,        \* the exception that left the handler (message parts)
    printed,      \* renderer diagnostics written to the log
    trace,        \* steps the handler has executed, with their outcome
    ffmpeg_exists, \* what os.path.exists(ffmpeg_path) returned to process_video(_short)
    fresh,        \* the paths written since the handler was entered
    stale,        \* files the handler read that were not written since its entry
    removed_partial, \* whether the entry removed a file whose writer had stopped midway
    dl_pc,        \* position inside download_file
    dl_url,       \* download_file: url
    dl_dest,      \* download_file: output_path
    file_id,      \* download_google_drive_file: file_id
    attempt,      \* download_google_drive_file: attempt (1-based)
    response,     \* download_google_drive_file: response
    requests,     \* network requests issued by the current download_file call
    outcomes,     \* how each candidate of the current call ended, in order
    dl_result,    \* return value of download_file
    caught        \* whether the step just taken ended in an except clause

VARIABLES
    file_bytes,   \* verify_file: the content of the file at the path
    verified      \* verify_file: its return value

VARIABLES
    segments,     \* the segment list: as recognized, then as transcribe_audio returns it
    max_time,     \* max_time of the two synthesizers
    sub_pc,       \* how far the subtitle functions have been applied
    ass_cues,     \* the Dialogue lines words_to_karaoke_ass wrote
    srt_cues,     \* the entries create_enhanced_srt wrote
    srt_chunks,   \* create_enhanced_srt: word_chunks of each segment
    recognized    \* the segments model.transcribe yielded

VARIABLES
    stamp,        \* the time handed to the two time formatters
    ass_time,     \* what format_time_precise returned
    srt_time,     \* what format_srt_time_precise returned
    fmt_pc        \* which formatters have been applied

VARIABLES
    jobs,         \* two concurrent requests: position and local subs_path of each
    owner,        \* their working paths: present or not, and by which job's doing
    foreign       \* reads by a job of a path last written or removed by the other

vars == <<variant, audio_url, image_url, pc, fs, subs_path, cmd, proc, error,
          printed, trace, ffmpeg_exists, fresh, stale, removed_partial, dl_pc, dl_url, dl_dest, file_id, attempt, response,
          requests, outcomes, dl_result, caught, file_bytes, verified,
          segments, max_time, sub_pc, ass_cues, srt_cues, srt_chunks, recognized,
          stamp, ass_time, srt_time, fmt_pc, jobs, owner, foreign>>

jobVars == <<variant, audio_url, image_url, pc, subs_path, cmd, proc, error,
             printed, trace, ffmpeg_exists, stale, removed_partial>>

dlVars == <<dl_pc, dl_url, dl_dest, file_id, attempt, response, requests,
            outcomes, dl_result, caught>>

\* The variables of the function-level specifications, which the request
\* handlers and the fetcher leave alone.
verifyVars == <<file_bytes, verified>>
subsVars == <<segments, max_time, sub_pc, ass_cues, srt_cues, srt_chunks,
              recognized>>
timeVars == <<stamp, ass_time, srt_time, fmt_pc>>
raceVars == <<jobs, owner, foreign>>
unitVars == <<verifyVars, subsVars, timeVars>>

\* ------------------------------------------------------------------------
\* Asset Fetcher: download_file / download_google_drive_file
\* ------------------------------------------------------------------------
\* The candidate list of download_google_drive_file, in the order it is built.
download_urls(url, fid) ==
    << [form |-> "original",          arg |-> url],
       [form |-> "uc_export",         arg |-> fid],
       [form |-> "uc_export_confirm", arg |-> fid],
       [form |-> "docs_export",       arg |-> fid] >>

\* A response that passed raise_for_status: whether its content type contains
\* text/html, whether the first 1000 characters carry the interstitial warning
\* marker and an href="/uc?export=download..." link, and what the body is.
HtmlResponses == [html : {TRUE}, warning : BOOLEAN, link : BOOLEAN, body : {"html"}]
FileResponses == [html : {FALSE}, warning : {FALSE}, link : {FALSE},
                  body : {"empty", "data", "html"}]
Responses == HtmlResponses \cup FileResponses
NoResponse == [html |-> FALSE, warning |-> FALSE, link |-> FALSE, body |-> "empty"]

WriteFs(f, p, kind) == [f EXCEPT ![p] = kind]

\* A step that leaves a file of the given kind at path p.
Written(p, kind) ==
    /\ fs' = WriteFs(fs, p, kind)
    /\ fresh' = IF kind = "absent" THEN fresh \ {p} ELSE fresh \cup {p}

\* "continue" of the candidate loop, and the "return False" after the loop.
ContinueLoop ==
    /\ outcomes' = Append(outcomes, "failed")
    /\ IF attempt < Len(download_urls(dl_url, file_id))
       THEN /\ attempt' = attempt + 1
            /\ dl_pc' = "request"
            /\ UNCHANGED dl_result
       ELSE /\ dl_pc' = "done"
            /\ dl_result' = "false"
            /\ UNCHANGED attempt

\* "except Exception as e: ... continue" of the candidate loop.
ExceptContinue ==
    /\ caught' = TRUE
    /\ ContinueLoop

\* download_file: dispatch on the host.
DownloadFile ==
    /\ dl_pc = "start"
    /\ dl_pc' = IF HasSub(dl_url, S_drive) THEN "drive" ELSE "regular"
    /\ UNCHANGED <<jobVars, fs, fresh, dl_url, dl_dest, file_id, attempt, response,
                   requests, outcomes, dl_result, caught>>
    /\ UNCHANGED <<unitVars, raceVars>>

\* DriveExtract without the early return on a missing file id.
DriveExtract_NoEarlyReturn ==
    /\ dl_pc = "drive"
    /\ file_id' = extract_file_id_from_url(dl_url)
    /\ dl_pc' = "request"
    /\ attempt' = 1
    /\ UNCHANGED dl_result
    /\ UNCHANGED <<jobVars, fs, fresh, dl_url, dl_dest, response, requests, outcomes,
                   caught>>
    /\ UNCHANGED <<unitVars, raceVars>>

\* download_google_drive_file up to the candidate loop.
DriveExtract ==
    /\ dl_pc = "drive"
    /\ file_id' = extract_file_id_from_url(dl_url)
    /\ IF file_id' = << >>
       THEN /\ dl_pc' = "done"
            /\ dl_result' = "false"
            /\ UNCHANGED attempt
       ELSE /\ dl_pc' = "request"
            /\ attempt' = 1
            /\ UNCHANGED dl_result
    /\ UNCHANGED <<jobVars, fs, fresh, dl_url, dl_dest, response, requests, outcomes,
                   caught>>
    /\ UNCHANGED <<unitVars, raceVars>>

\* DriveRequest outside the try block: an exception of the request leaves
\* download_file.
DriveRequest_Uncaught ==
    /\ dl_pc = "request"
    /\ requests' = Append(requests,
            [kind |-> "candidate", n |-> attempt,
             url |-> download_urls(dl_url, file_id)[attempt]])
    /\ \/ /\ dl_pc' = "done"
          /\ dl_result' = "raised"
          /\ caught' = FALSE
          /\ UNCHANGED <<response, attempt, outcomes>>
       \/ /\ \E r \in Responses : response' = r
          /\ dl_pc' = "inspect"
          /\ caught' = FALSE
          /\ UNCHANGED <<attempt, dl_result, outcomes>>
    /\ UNCHANGED <<jobVars, fs, fresh, dl_url, dl_dest, file_id>>
    /\ UNCHANGED <<unitVars, raceVars>>

\* session.get(download_url) and raise_for_status of one candidate.
DriveRequest ==
    /\ dl_pc = "request"
    /\ requests' = Append(requests,
            [kind |-> "candidate", n |-> attempt,
             url |-> download_urls(dl_url, file_id)[attempt]])
    /\ \/ /\ ExceptContinue                     \* the request raised
          /\ UNCHANGED response
       \/ /\ \E r \in Responses : response' = r
          /\ dl_pc' = "inspect"
          /\ caught' = FALSE
          /\ UNCHANGED <<attempt, dl_result, outcomes>>
    /\ UNCHANGED <<jobVars, fs, fresh, dl_url, dl_dest, file_id>>
    /\ UNCHANGED <<unitVars, raceVars>>

\* The content-type test and the search for the bypass link.
DriveInspect ==
    /\ dl_pc = "inspect"
    /\ IF response.html
       THEN IF response.warning /\ response.link
            THEN /\ dl_pc' = "bypass"
                 /\ UNCHANGED <<attempt, dl_result, outcomes>>
            ELSE ContinueLoop                   \* still HTML
       ELSE /\ dl_pc' = "write"
            /\ UNCHANGED <<attempt, dl_result, outcomes>>
    /\ UNCHANGED <<jobVars, fs, fresh, dl_url, dl_dest, file_id, response, requests,
                   caught>>
    /\ UNCHANGED <<unitVars, raceVars>>

\* DriveBypass following a further bypass link when the bypass response is
\* again an interstitial page.
DriveBypass_Again ==
    /\ dl_pc = "bypass"
    /\ requests' = Append(requests,
            [kind |-> "bypass", n |-> attempt,
             url |-> [form |-> "bypass_link", arg |-> file_id]])
    /\ \/ /\ ExceptContinue
          /\ UNCHANGED response
       \/ \E r \in Responses :
            /\ response' = r
            /\ caught' = FALSE
            /\ IF r.html
               THEN IF r.warning /\ r.link
                    THEN /\ dl_pc' = "bypass"
                         /\ UNCHANGED <<attempt, dl_result, outcomes>>
                    ELSE ContinueLoop
               ELSE /\ dl_pc' = "write"
                    /\ UNCHANGED <<attempt, dl_result, outcomes>>
    /\ UNCHANGED <<jobVars, fs, fresh, dl_url, dl_dest, file_id>>
    /\ UNCHANGED <<unitVars, raceVars>>

\* session.get(bypass_url), raise_for_status and the second content-type test.
DriveBypass ==
    /\ dl_pc = "bypass"
    /\ requests' = Append(requests,
            [kind |-> "bypass", n |-> attempt,
             url |-> [form |-> "bypass_link", arg |-> file_id]])
    /\ \/ /\ ExceptContinue                     \* the request raised
          /\ UNCHANGED response
       \/ \E r \in Responses :
            /\ response' = r
            /\ caught' = FALSE
            /\ IF r.html
               THEN ContinueLoop                \* still HTML
               ELSE /\ dl_pc' = "write"
                    /\ UNCHANGED <<attempt, dl_result, outcomes>>
    /\ UNCHANGED <<jobVars, fs, fresh, dl_url, dl_dest, file_id>>
    /\ UNCHANGED <<unitVars, raceVars>>

\* DriveWrite returning True after the write without the size check.
DriveWrite_NoSizeCheck ==
    /\ dl_pc = "write"
    /\ \/ /\ ExceptContinue
          /\ UNCHANGED <<fs, fresh>>
       \/ /\ ExceptContinue
          /\ Written(dl_dest, "empty")
       \/ /\ response.body # "empty"
          /\ ExceptContinue
          /\ Written(dl_dest,
                     IF response.body = "html" THEN "html" ELSE "partial")
       \/ /\ Written(dl_dest, response.body)
          /\ caught' = FALSE
          /\ dl_pc' = "done"
          /\ dl_result' = "true"
          /\ outcomes' = Append(outcomes, "verified")
          /\ UNCHANGED attempt
    /\ UNCHANGED <<jobVars, dl_url, dl_dest, file_id, response, requests>>
    /\ UNCHANGED <<unitVars, raceVars>>

\* open(output_path, "wb"), the chunk loop and the size check.
DriveWrite ==
    /\ dl_pc = "write"
    /\ \/ /\ ExceptContinue                     \* open raised
          /\ UNCHANGED <<fs, fresh>>
       \/ /\ ExceptContinue                     \* iter_content raised at once
          /\ Written(dl_dest, "empty")
       \/ /\ response.body # "empty"            \* iter_content raised midway
          /\ ExceptContinue
          /\ Written(dl_dest,
                     IF response.body = "html" THEN "html" ELSE "partial")
       \/ /\ Written(dl_dest, response.body)
          /\ caught' = FALSE
          /\ IF Exists(fs'[dl_dest]) /\ NonEmpty(fs'[dl_dest])
             THEN /\ dl_pc' = "done"
                  /\ dl_result' = "true"
                  /\ outcomes' = Append(outcomes, "verified")
                  /\ UNCHANGED attempt
             ELSE ContinueLoop
    /\ UNCHANGED <<jobVars, dl_url, dl_dest, file_id, response, requests>>
    /\ UNCHANGED <<unitVars, raceVars>>

\* The else-branch of download_file: one GET, body written as it is.
RegularDownload ==
    /\ dl_pc = "regular"
    /\ requests' = Append(requests,
            [kind |-> "regular", n |-> 0,
             url |-> [form |-> "original", arg |-> dl_url]])
    /\ dl_pc' = "done"
    /\ \/ /\ dl_result' = "false"               \* get / raise_for_status raised
          /\ caught' = TRUE
          /\ UNCHANGED <<fs, fresh, response>>
       \/ \E r \in Responses :
            /\ response' = r
            /\ \/ /\ dl_result' = "false"       \* open raised
                  /\ caught' = TRUE
                  /\ UNCHANGED <<fs, fresh>>
               \/ /\ Written(dl_dest, r.body)
                  /\ dl_result' = "true"
                  /\ caught' = FALSE
    /\ UNCHANGED <<jobVars, dl_url, dl_dest, file_id, attempt, outcomes>>
    /\ UNCHANGED <<unitVars, raceVars>>

\* ------------------------------------------------------------------------
\* Asset Verifier
\* ------------------------------------------------------------------------
\* verify_file on what the path holds: missing, empty, or HTML in the leading
\* bytes fail; any other non-empty file passes.
verify_file(f) ==
    IF ~Exists(f) THEN FALSE
    ELSE IF f = "empty" THEN FALSE
    ELSE IF f = "html" THEN FALSE
    ELSE TRUE

\* bytes.lower(): the ASCII capitals are mapped to their small letters, every
\* other byte is kept.
Capitals == <<"A","B","C","D","E","F","G","H","I","J","K","L","M",
              "N","O","P","Q","R","S","T","U","V","W","X","Y","Z">>
Smalls   == <<"a","b","c","d","e","f","g","h","i","j","k","l","m",
              "n","o","p","q","r","s","t","u","v","w","x","y","z">>

Lower(bytes) ==
    [i \in 1..Len(bytes) |->
        IF \E k \in 1..Len(Capitals) : Capitals[k] = bytes[i]
        THEN Smalls[CHOOSE k \in 1..Len(Capitals) : Capitals[k] = bytes[i]]
        ELSE bytes[i]]

\* f.read(n): the first n bytes, or the whole file when it is shorter.
Read(bytes, n) == SubSeq(bytes, 1, IF Len(bytes) < n THEN Len(bytes) ELSE n)

ReadLimit == 500

B_html    == <<"<","h","t","m","l">>
B_doctype == <<"<","!","d","o","c","t","y","p","e">>

\* A path of the working directory is a record of whether a file exists at it
\* and of the file's bytes; MissingFile is a path at which nothing exists.
MissingFile   == [exists |-> FALSE, bytes |-> << >>]

\* verify_file reading the leading bytes without lower().
verify_file_content_CaseSensitive(file) ==
    IF ~file.exists THEN FALSE
    ELSE IF Len(file.bytes) = 0 THEN FALSE
    ELSE LET first_bytes == Read(file.bytes, ReadLimit)
         IN  IF \/ HasSub(first_bytes, B_html)
                \/ HasSub(first_bytes, B_doctype)
             THEN FALSE
             ELSE TRUE

\* verify_file on the bytes of the file.
verify_file_content(file) ==
    IF ~file.exists THEN FALSE
    ELSE IF Len(file.bytes) = 0 THEN FALSE
    ELSE LET first_bytes == Read(file.bytes, ReadLimit)
         IN  IF \/ HasSub(Lower(first_bytes), B_html)
                \/ HasSub(Lower(first_bytes), B_doctype)
             THEN FALSE
             ELSE TRUE

\* The files verify_file is applied to: a run of filler bytes followed by a
\* few tokens, so that a marker can lie inside, across or beyond the bytes
\* that are read.
MaxBodyTokens == 2

BodyTokens ==
    {B_html, <<"<","H","T","M","L">>, <<"<","h","T","m","L">>,
     B_doctype, <<"<","!","D","O","C","T","Y","P","E">>,
     <<"<","h","t","m">>, <<"I","D","3">>}

RECURSIVE BodiesOfLen(_)
BodiesOfLen(n) ==
    IF n = 0 THEN {<< >>}
    ELSE {b \o t : b \in BodiesOfLen(n - 1), t \in BodyTokens}

Files ==
    {MissingFile} \cup
    {[exists |-> TRUE, bytes |-> [i \in 1..pad |-> "."] \o b] :
        pad \in {0, 1, ReadLimit - 9, ReadLimit - 8, ReadLimit - 5, ReadLimit - 4,
                 ReadLimit - 1, ReadLimit, ReadLimit + 7},
        b \in UNION {BodiesOfLen(n) : n \in 0..MaxBodyTokens}}

\* One call of verify_file on the file at hand.
VerifyFile ==
    /\ verified = "none"
    /\ verified' = IF verify_file_content(file_bytes) THEN "true" ELSE "false"
    /\ UNCHANGED <<jobVars, fs, fresh, dlVars, file_bytes, subsVars, timeVars, raceVars>>

\* ------------------------------------------------------------------------
\* Subtitle Synthesizer: transcribe_audio (word cleaning),
\* words_to_karaoke_ass, create_enhanced_srt
\* ------------------------------------------------------------------------
\* Times are counted in ticks of a tenth of a millisecond, so that the
\* rounding of both time formats has something to round.
TicksPerCenti  == 100
TicksPerMilli  == 10

\* mt = None.
NoCap == -1
\* A word timestamp that is None.
NoTime == -1

\* round(x) of Python on the quotient n / d: to the nearest integer, a tie to
\* the even neighbour.
RoundHalfEven(n, d) ==
    LET q == n \div d
        r == n % d
    IN  IF 2 * r < d THEN q
        ELSE IF 2 * r > d THEN q + 1
        ELSE IF q % 2 = 0 THEN q ELSE q + 1

\* Decimal digits of a natural number, and the d / 02d / 03d conversions.
DigitChars == <<"0","1","2","3","4","5","6","7","8","9">>

RECURSIVE Dec(_)
Dec(n) ==
    IF n < 10 THEN <<DigitChars[n + 1]>>
    ELSE Dec(n \div 10) \o <<DigitChars[(n % 10) + 1]>>

RECURSIVE ZeroPad(_, _)
ZeroPad(digits, width) ==
    IF Len(digits) >= width THEN digits ELSE ZeroPad(<<"0">> \o digits, width)

\* format_time_precise splitting the time into fields before rounding the
\* seconds.
format_time_precise_SplitFirst(seconds) ==
    LET hours   == seconds \div (3600 * 10000)
        minutes == (seconds % (3600 * 10000)) \div (60 * 10000)
        secs    == RoundHalfEven(seconds % (60 * 10000), TicksPerCenti)
    IN  Dec(hours) \o <<":">> \o ZeroPad(Dec(minutes), 2) \o <<":">>
          \o ZeroPad(Dec(secs \div 100), 2) \o <<".">> \o ZeroPad(Dec(secs % 100), 2)

\* format_time_precise of words_to_karaoke_ass: H:MM:SS.CC.
format_time_precise(seconds) ==
    LET centiseconds == RoundHalfEven(seconds, TicksPerCenti)
        hours   == centiseconds \div 360000
        minutes == (centiseconds % 360000) \div 6000
        secs    == centiseconds % 6000
    IN  Dec(hours) \o <<":">> \o ZeroPad(Dec(minutes), 2) \o <<":">>
          \o ZeroPad(Dec(secs \div 100), 2) \o <<".">> \o ZeroPad(Dec(secs % 100), 2)

\* format_srt_time_precise of create_enhanced_srt: HH:MM:SS,mmm.
format_srt_time_precise(seconds) ==
    LET milliseconds  == RoundHalfEven(seconds, TicksPerMilli)
        total_seconds == milliseconds \div 1000
        millis        == milliseconds % 1000
        hours   == total_seconds \div 3600
        minutes == (total_seconds % 3600) \div 60
        secs    == total_seconds % 60
    IN  ZeroPad(Dec(hours), 2) \o <<":">> \o ZeroPad(Dec(minutes), 2) \o <<":">>
          \o ZeroPad(Dec(secs), 2) \o <<",">> \o ZeroPad(Dec(millis), 3)

\* The times the formatters are applied to: whole hours, minutes and seconds
\* up to MaxHours, plus a fraction of a second on either side of a rounding
\* step of either format.
MaxHours == 2

Stamps ==
    {(h * 3600 + m * 60 + sec) * 10000 + f :
        h \in 0..MaxHours, m \in {0, 2, 59}, sec \in {0, 5, 59},
        f \in {0, 4, 5, 6, 15, 49, 50, 51, 60, 150, 9949, 9950, 9994, 9995, 9999}}

\* format_time_precise(seg.start) and its like.
FormatAss ==
    /\ fmt_pc = "given"
    /\ fmt_pc' = "ass"
    /\ ass_time' = format_time_precise(stamp)
    /\ UNCHANGED <<stamp, srt_time>>
    /\ UNCHANGED <<jobVars, fs, fresh, dlVars, verifyVars, subsVars, raceVars>>

\* format_srt_time_precise(chunk[0].start) and its like.
FormatSrt ==
    /\ fmt_pc = "ass"
    /\ fmt_pc' = "srt"
    /\ srt_time' = format_srt_time_precise(stamp)
    /\ UNCHANGED <<stamp, ass_time>>
    /\ UNCHANGED <<jobVars, fs, fresh, dlVars, verifyVars, subsVars, raceVars>>

\* The word test of transcribe_audio with "end >= start".
ValidWord_AllowsZeroLength(word) ==
    /\ word.start # NoTime
    /\ word.end # NoTime
    /\ word.end >= word.start

\* transcribe_audio, the cleaning of the segments the recognizer returned: a
\* word is kept when both timestamps are present and end > start; a segment
\* is kept when it had words and at least one is left.
ValidWord(word) ==
    /\ word.start # NoTime
    /\ word.end # NoTime
    /\ word.end > word.start

cleaned_words(seg) == SelectSeq(seg.words, ValidWord)

RECURSIVE transcribe_audio(_)
transcribe_audio(raw) ==
    IF raw = << >> THEN << >>
    ELSE LET segment == Head(raw)
         IN  IF segment.words # << >> /\ cleaned_words(segment) # << >>
             THEN <<[segment EXCEPT !.words = cleaned_words(segment)]>>
                    \o transcribe_audio(Tail(raw))
             ELSE transcribe_audio(Tail(raw))

\* min_duration = 0.1 of words_to_karaoke_ass, in ticks.
min_duration == 1000

Max(a, b) == IF a >= b THEN a ELSE b

\* duration_centis without the 100 ms floor.
duration_centis_NoFloor(word, mt) ==
    LET d0 == word.end - word.start
        word_duration == IF mt # NoCap /\ word.end > mt
                         THEN mt - word.start ELSE d0
    IN  Max(1, word_duration \div TicksPerCenti)

\* The \k value of one word: duration, truncation at mt, the 100 ms
\* floor, and max(1, int(word_duration * 100)).
duration_centis(word, mt) ==
    LET d0 == word.end - word.start
        d1 == IF mt # NoCap /\ word.end > mt
              THEN mt - word.start ELSE d0
        word_duration == IF d1 < min_duration THEN min_duration ELSE d1
    IN  Max(1, word_duration \div TicksPerCenti)

\* The word loop of words_to_karaoke_ass: one {\k} part per word that starts
\* before mt and has a text.
RECURSIVE karaoke_text(_, _)
karaoke_text(words, mt) ==
    IF words = << >> THEN << >>
    ELSE LET word == Head(words)
             rest == karaoke_text(Tail(words), mt)
         IN  IF mt # NoCap /\ word.start >= mt THEN rest
             ELSE IF word.word # << >>
                  THEN <<[k |-> duration_centis(word, mt), text |-> word.word]>> \o rest
                  ELSE rest

\* The character loop of words_to_karaoke_ass for a segment without words.
char_karaoke_text(seg) ==
    LET segment_duration == seg.end - seg.start
        char_duration == Max(5, (segment_duration \div TicksPerCenti) \div Len(seg.text))
    IN  [i \in 1..Len(seg.text) |->
            IF seg.text[i] # " "
            THEN [k |-> char_duration, text |-> <<seg.text[i]>>]
            ELSE [k |-> 2, text |-> <<" ">>]]

\* The Dialogue lines words_to_karaoke_ass writes, in order; seg is the
\* position of the line's segment in the list passed in.
RECURSIVE KaraokeLoop(_, _, _)
KaraokeLoop(segs, i, mt) ==
    IF i > Len(segs) THEN << >>
    ELSE LET seg  == segs[i]
             rest == KaraokeLoop(segs, i + 1, mt)
             line(parts) == [seg |-> i,
                             start_time |-> format_time_precise(seg.start),
                             end_time |-> format_time_precise(seg.end),
                             parts |-> parts]
         IN  IF mt # NoCap /\ ~(seg.start < mt) THEN rest
             ELSE IF seg.words # << >>
                  THEN IF karaoke_text(seg.words, mt) # << >>
                       THEN <<line(karaoke_text(seg.words, mt))>> \o rest
                       ELSE rest
                  ELSE IF seg.text # << >>
                       THEN <<line(char_karaoke_text(seg))>> \o rest
                       ELSE rest

words_to_karaoke_ass(segs, mt) == KaraokeLoop(segs, 1, mt)

\* The chunk loop of create_enhanced_srt over the words of one segment.
RECURSIVE ChunkLoop(_, _, _, _, _)
ChunkLoop(seg_words, j, current_chunk, chunks, mt) ==
    IF j > Len(seg_words)
    THEN [word_chunks |-> chunks, current_chunk |-> current_chunk]
    ELSE LET word == seg_words[j]
             grown == Append(current_chunk, word)
         IN  IF mt # NoCap /\ word.start >= mt
             THEN [word_chunks |-> chunks, current_chunk |-> current_chunk]
             ELSE IF \/ Len(grown) >= 4
                     \/ (Len(grown) >= 2 /\ word = seg_words[Len(seg_words)])
                  THEN ChunkLoop(seg_words, j + 1, << >>, Append(chunks, grown), mt)
                  ELSE ChunkLoop(seg_words, j + 1, grown, chunks, mt)

\* word_chunks without "Add any remaining words".
word_chunks_NoRemainder(seg, mt) ==
    ChunkLoop(seg.words, 1, << >>, << >>, mt).word_chunks

\* word_chunks after "Add any remaining words".
word_chunks(seg, mt) ==
    LET r == ChunkLoop(seg.words, 1, << >>, << >>, mt)
    IN  IF r.current_chunk # << >>
        THEN Append(r.word_chunks, r.current_chunk)
        ELSE r.word_chunks

\* "".join(text_parts) over the words that have a text.
RECURSIVE JoinWords(_)
JoinWords(words) ==
    IF words = << >> THEN << >>
    ELSE Head(words).word \o JoinWords(Tail(words))

\* Truncation of an end time at mt.
ClampEnd(t, mt) == IF mt # NoCap /\ t > mt THEN mt ELSE t

\* The entries of the chunks with subtitle_index advanced for a chunk without
\* text as well.
RECURSIVE ChunkEntries_CountsSkipped(_, _, _, _, _)
ChunkEntries_CountsSkipped(chunks, c, i, subtitle_index, mt) ==
    IF c > Len(chunks) THEN [cues |-> << >>, subtitle_index |-> subtitle_index]
    ELSE LET chunk == chunks[c]
             text  == JoinWords(chunk)
             entry == [index |-> subtitle_index,
                       start_time |-> format_srt_time_precise(chunk[1].start),
                       end_time |-> format_srt_time_precise(
                                        ClampEnd(chunk[Len(chunk)].end, mt)),
                       text |-> text, seg |-> i, chunk |-> c]
         IN  IF text # << >>
             THEN LET r == ChunkEntries_CountsSkipped(chunks, c + 1, i, subtitle_index + 1, mt)
                  IN  [cues |-> <<entry>> \o r.cues, subtitle_index |-> r.subtitle_index]
             ELSE ChunkEntries_CountsSkipped(chunks, c + 1, i, subtitle_index + 1, mt)

\* The entries written for the chunks of segment i, from chunk c on.
RECURSIVE ChunkEntries(_, _, _, _, _)
ChunkEntries(chunks, c, i, subtitle_index, mt) ==
    IF c > Len(chunks) THEN [cues |-> << >>, subtitle_index |-> subtitle_index]
    ELSE LET chunk == chunks[c]
             text  == JoinWords(chunk)
             entry == [index |-> subtitle_index,
                       start_time |-> format_srt_time_precise(chunk[1].start),
                       end_time |-> format_srt_time_precise(
                                        ClampEnd(chunk[Len(chunk)].end, mt)),
                       text |-> text, seg |-> i, chunk |-> c]
         IN  IF text # << >>
             THEN LET r == ChunkEntries(chunks, c + 1, i, subtitle_index + 1, mt)
                  IN  [cues |-> <<entry>> \o r.cues, subtitle_index |-> r.subtitle_index]
             ELSE ChunkEntries(chunks, c + 1, i, subtitle_index, mt)

\* The segment loop without the filter "seg.start < max_time".
RECURSIVE SrtLoop_NoSegmentFilter(_, _, _, _)
SrtLoop_NoSegmentFilter(segs, i, subtitle_index, mt) ==
    IF i > Len(segs) THEN << >>
    ELSE LET seg == segs[i]
         IN  IF Len(seg.words) > 1
             THEN LET r == ChunkEntries(word_chunks(seg, mt), 1, i,
                                        subtitle_index, mt)
                  IN  r.cues \o SrtLoop_NoSegmentFilter(segs, i + 1, r.subtitle_index, mt)
             ELSE LET text  == IF seg.text # << >> THEN seg.text
                               ELSE JoinWords(seg.words)
                      entry == [index |-> subtitle_index,
                                start_time |-> format_srt_time_precise(seg.start),
                                end_time |-> format_srt_time_precise(
                                                 ClampEnd(seg.end, mt)),
                                text |-> text, seg |-> i, chunk |-> 0]
                  IN  IF text # << >>
                      THEN <<entry>> \o SrtLoop_NoSegmentFilter(segs, i + 1, subtitle_index + 1, mt)
                      ELSE SrtLoop_NoSegmentFilter(segs, i + 1, subtitle_index, mt)

\* The segment loop of create_enhanced_srt.
RECURSIVE SrtLoop(_, _, _, _)
SrtLoop(segs, i, subtitle_index, mt) ==
    IF i > Len(segs) THEN << >>
    ELSE LET seg == segs[i]
         IN  IF mt # NoCap /\ ~(seg.start < mt)
             THEN SrtLoop(segs, i + 1, subtitle_index, mt)
             ELSE IF Len(seg.words) > 1
             THEN LET r == ChunkEntries(word_chunks(seg, mt), 1, i,
                                        subtitle_index, mt)
                  IN  r.cues \o SrtLoop(segs, i + 1, r.subtitle_index, mt)
             ELSE LET text  == IF seg.text # << >> THEN seg.text
                               ELSE JoinWords(seg.words)
                      entry == [index |-> subtitle_index,
                                start_time |-> format_srt_time_precise(seg.start),
                                end_time |-> format_srt_time_precise(
                                                 ClampEnd(seg.end, mt)),
                                text |-> text, seg |-> i, chunk |-> 0]
                  IN  IF text # << >>
                      THEN <<entry>> \o SrtLoop(segs, i + 1, subtitle_index + 1, mt)
                      ELSE SrtLoop(segs, i + 1, subtitle_index, mt)

create_enhanced_srt(segs, mt) == SrtLoop(segs, 1, 1, mt)

\* What the recognizer returns for the synthesizers to work on: per segment a
\* number of words laid out one after the other from the segment's start.
MaxWords == 8

Letters == <<"a","b","c","d","e","f","g","h","i","j","k","l">>

SegParams ==
    [n : 1..MaxWords, start : {0, 575000, 590000}, lead : {0, 3000},
     dur : {700, 2570, 10000}, gap : {0, 2000},
     texts : {"all", "second_empty", "first_four_empty"},
     timing : {"all_valid", "first_zero_length"}]

RawWord(p, j) ==
    LET s == p.start + p.lead + (j - 1) * (p.dur + p.gap)
    IN  [word  |-> IF \/ p.texts = "second_empty" /\ j = 2
                      \/ p.texts = "first_four_empty" /\ j <= 4
                   THEN << >>
                   ELSE <<" ", Letters[j]>>,
         start |-> IF p.timing = "first_untimed" /\ j = 1 THEN NoTime ELSE s,
         end   |-> IF p.timing = "first_zero_length" /\ j = 1 THEN s ELSE s + p.dur]

RawSegment(p) ==
    LET words == [j \in 1..p.n |-> RawWord(p, j)]
    IN  IF p.n = 0
        THEN [start |-> p.start, end |-> p.start + p.dur, text |-> <<" ", "z">>,
              words |-> << >>]
        ELSE [start |-> p.start, end |-> words[p.n].end, text |-> JoinWords(words),
              words |-> words]

\* A second segment that follows the first in the transcript: one with 1 or
\* 5 timed words, one without word-level timing, one whose first word has no
\* start time.
FollowerParams(p) ==
    {[n |-> m, start |-> RawSegment(p).end, lead |-> 0, dur |-> 10000, gap |-> 0,
      texts |-> "all", timing |-> "all_valid"] : m \in {0, 1, 5}}
      \cup {[n |-> 5, start |-> RawSegment(p).end, lead |-> 0, dur |-> 10000,
              gap |-> 0, texts |-> "all", timing |-> "first_untimed"]}

RawTranscripts ==
    {<<RawSegment(p)>> : p \in SegParams}
      \cup UNION {{<<RawSegment(p), RawSegment(q)>> : q \in FollowerParams(p)} : p \in SegParams}

\* max_time of the short variant (59.0 s) and of the standard variant (None).
ShortCap == 590000

\* transcribe_audio returns the cleaned segments.
Transcribed ==
    /\ sub_pc = "recognized"
    /\ sub_pc' = "transcribed"
    /\ segments' = transcribe_audio(segments)
    /\ UNCHANGED <<max_time, ass_cues, srt_cues, srt_chunks, recognized>>
    /\ UNCHANGED <<jobVars, fs, fresh, dlVars, verifyVars, timeVars, raceVars>>

\* words_to_karaoke_ass writes the karaoke track.
WriteKaraoke ==
    /\ sub_pc = "transcribed"
    /\ sub_pc' = "karaoke_written"
    /\ ass_cues' = words_to_karaoke_ass(segments, max_time)
    /\ UNCHANGED <<segments, max_time, srt_cues, srt_chunks, recognized>>
    /\ UNCHANGED <<jobVars, fs, fresh, dlVars, verifyVars, timeVars, raceVars>>

\* create_enhanced_srt writes the fallback track.
WriteSrt ==
    /\ sub_pc = "karaoke_written"
    /\ sub_pc' = "srt_written"
    /\ srt_cues' = create_enhanced_srt(segments, max_time)
    /\ srt_chunks' = [i \in 1..Len(segments) |->
                        IF (max_time = NoCap \/ segments[i].start < max_time)
                           /\ Len(segments[i].words) > 1
                        THEN word_chunks(segments[i], max_time)
                        ELSE << >>]
    /\ UNCHANGED <<segments, max_time, ass_cues, recognized>>
    /\ UNCHANGED <<jobVars, fs, fresh, dlVars, verifyVars, timeVars, raceVars>>

\* ------------------------------------------------------------------------
\* Render Invoker: process_video / process_video_short
\* ------------------------------------------------------------------------
NoStyle == [Fontsize |-> 0, Outline |-> 0, MarginV |-> 0]
NoCmd == [image |-> NoneP, audio |-> NoneP, vf |-> << >>, limit |-> "none",
          out |-> NoneP]
NoProc == [outcome |-> "none", returncode |-> 0, stdout |-> "", stderr |-> ""]

\* force_style of the subtitles filter in the two geometries.
force_style(v) ==
    IF v = "short"
    THEN [Fontsize |-> 72, Outline |-> 3, MarginV |-> 80]
    ELSE [Fontsize |-> 48, Outline |-> 2, MarginV |-> 60]

\* subs_filter: chosen by subs_path.endswith('.ass').
subs_filter(v, sp) ==
    IF sp.ext = "ass"
    THEN [name |-> "ass", path |-> sp, style |-> NoStyle]
    ELSE [name |-> "subtitles", path |-> sp, style |-> force_style(v)]

scale_pad == [name |-> "scale_pad_1080x1920", path |-> NoneP, style |-> NoStyle]

\* The command line of process_video (standard) and process_video_short.
BuildCmd(v, ap, ip, vp, sp) ==
    IF v = "short"
    THEN [image |-> ip, audio |-> ap,
          vf |-> IF sp # NoneP THEN <<scale_pad, subs_filter(v, sp)>>
                 ELSE <<scale_pad>>,
          limit |-> "-t 59", out |-> vp]
    ELSE [image |-> ip, audio |-> ap,
          vf |-> IF sp # NoneP THEN <<subs_filter(v, sp)>> ELSE << >>,
          limit |-> "-shortest", out |-> vp]

\* The subs_path argument of the handler's call: combine_media calls
\* process_video(audio_path, image_path, video_path) and leaves the parameter
\* at its default None; combine_media_short passes subs_path.
PassedSubs(v, sp) == IF v = "short" THEN sp ELSE NoneP

Str(rc) == IF rc = 0 THEN "0" ELSE "nonzero"

NoExc == [type |-> "none", msg |-> << >>]

\* RenderBody without the return code test.
RenderBody_NoReturnCodeTest(p, f) ==
    IF p.outcome = "timeout" THEN [type |-> "TimeoutExpired", msg |-> << >>]
    ELSE IF p.outcome = "oserror"
         THEN [type |-> "OSError", msg |-> <<"OSError">>]
    ELSE IF ~Exists(f)
         THEN [type |-> "Exception", msg |-> <<"Output video file was not created">>]
    ELSE IF f = "empty"
         THEN [type |-> "Exception", msg |-> <<"Output video file is empty">>]
    ELSE NoExc

\* RenderBody without the size test of the output file.
RenderBody_NoSizeTest(p, f) ==
    IF p.outcome = "timeout" THEN [type |-> "TimeoutExpired", msg |-> << >>]
    ELSE IF p.outcome = "oserror"
         THEN [type |-> "OSError", msg |-> <<"OSError">>]
    ELSE IF p.returncode # 0
         THEN [type |-> "Exception",
               msg |-> <<"FFmpeg failed with return code ", Str(p.returncode)>>]
    ELSE IF ~Exists(f)
         THEN [type |-> "Exception", msg |-> <<"Output video file was not created">>]
    ELSE NoExc

\* The try body after subprocess.run: what it raises for a process result p
\* and the output file f.
RenderBody(p, f) ==
    IF p.outcome = "timeout" THEN [type |-> "TimeoutExpired", msg |-> << >>]
    ELSE IF p.outcome = "oserror"
         THEN [type |-> "OSError", msg |-> <<"OSError">>]
    ELSE IF p.returncode # 0
         THEN [type |-> "Exception",
               msg |-> <<"FFmpeg failed with return code ", Str(p.returncode)>>]
    ELSE IF ~Exists(f)
         THEN [type |-> "Exception", msg |-> <<"Output video file was not created">>]
    ELSE IF f = "empty"
         THEN [type |-> "Exception", msg |-> <<"Output video file is empty">>]
    ELSE NoExc

\* RenderExcept with the generic clause first: it also catches the timeout.
RenderExcept_GenericFirst(exc) ==
    <<"Video generation failed: ">> \o exc.msg

\* The two except clauses, in their order.
RenderExcept(exc) ==
    IF exc.type = "TimeoutExpired" THEN <<"Video generation timed out">>
    ELSE <<"Video generation failed: ">> \o exc.msg

\* What is printed before the raise on a non-zero return code.
RenderPrints(p) ==
    IF p.outcome = "exit" /\ p.returncode # 0
    THEN <<p.stdout, p.stderr>>
    ELSE << >>

StdoutTexts == {"stdout text"}
StderrTexts == {"", "stderr text"}

\* What the external renderer can do once launched, and what it can leave at
\* the output path.
ProcResults ==
    [outcome : {"timeout", "oserror"}, returncode : {0}, stdout : {""}, stderr : {""}]
    \cup [outcome : {"exit"}, returncode : {0, 1}, stdout : StdoutTexts,
          stderr : StderrTexts]

OutputKinds(p) ==
    IF p.outcome = "oserror" THEN {"absent"}
    ELSE IF p.outcome = "exit" /\ p.returncode = 0 THEN {"absent", "empty", "data"}
    ELSE {"absent", "empty", "partial"}

\* The ./tmp directory before a request: never used, or holding the files
\* earlier requests left behind (no handler removes its files when it ends).
EmptyFs == [p \in AllPaths |-> "absent"]
LeftoverFs == [p \in AllPaths |-> "data"]

\* ------------------------------------------------------------------------
\* Pipeline Orchestrator: combine_media / combine_media_short
\* ------------------------------------------------------------------------
Started(t, step) == Append(t, [step |-> step, status |-> "running"])
Finished(t, ok) ==
    [t EXCEPT ![Len(t)].status = IF ok THEN "ok" ELSE "failed"]

\* The validation of combine_media_short; combine_media has none.
ValidationError(v, a, i) ==
    IF v # "short" THEN << >>
    ELSE IF a = << >> \/ IsBlank(a)
         THEN <<"Audio URL is required and cannot be empty">>
    ELSE IF i = << >> \/ IsBlank(i)
         THEN <<"Image URL is required and cannot be empty">>
    ELSE IF ~(StartsWith(a, S_http) \/ StartsWith(a, S_https))
         THEN <<"Audio URL must start with http:// or https://">>
    ELSE IF ~(StartsWith(i, S_http) \/ StartsWith(i, S_https))
         THEN <<"Image URL must start with http:// or https://">>
    ELSE << >>

\* The removal loop over the audio, image and output paths only.
RemoveExisting_KeepsSubtitles(f, v) ==
    [p \in AllPaths |->
        IF p \in {audio_path(v), image_path(v), video_path(v)} THEN "absent" ELSE f[p]]

\* "Remove existing files" of the handler.
RemoveExisting(f, v) ==
    [p \in AllPaths |-> IF p \in WorkingPaths(v) THEN "absent" ELSE f[p]]

\* The function-level specifications are not running.
VerifyIdle ==
    /\ file_bytes = MissingFile
    /\ verified = "none"

SubsIdle ==
    /\ segments = << >>
    /\ max_time = NoCap
    /\ sub_pc = "idle"
    /\ ass_cues = << >>
    /\ srt_cues = << >>
    /\ srt_chunks = << >>
    /\ recognized = << >>

TimeIdle ==
    /\ stamp = 0
    /\ ass_time = << >>
    /\ srt_time = << >>
    /\ fmt_pc = "idle"

RaceIdle ==
    /\ jobs = << >>
    /\ owner = << >>
    /\ foreign = {}

UnitIdle ==
    /\ VerifyIdle
    /\ SubsIdle
    /\ TimeIdle
    /\ RaceIdle

\* No request is being served and no download is under way.
HandlersIdle ==
    /\ variant = "standard"
    /\ audio_url = << >>
    /\ image_url = << >>
    /\ pc = "Idle"
    /\ fs = EmptyFs
    /\ subs_path = NoneP
    /\ cmd = NoCmd
    /\ proc = NoProc
    /\ error = << >>
    /\ printed = << >>
    /\ trace = << >>
    /\ ffmpeg_exists = "unchecked"
    /\ fresh = {}
    /\ stale = {}
    /\ removed_partial = FALSE
    /\ dl_pc = "idle"
    /\ dl_url = << >>
    /\ dl_dest = NoneP
    /\ file_id = << >>
    /\ attempt = 0
    /\ response = NoResponse
    /\ requests = << >>
    /\ outcomes = << >>
    /\ dl_result = "none"
    /\ caught = FALSE

\* The files among ps that exist and were not written since the handler was
\* entered.
StaleOf(ps) == {p \in ps : Exists(fs[p]) /\ p \notin fresh}

\* Handler entry up to the first download: the validation of the short
\* variant, then the removal of the working files.
Entry(v, a, i) ==
    /\ variant' = v
    /\ audio_url' = a
    /\ image_url' = i
    /\ fresh' = {}
    /\ stale' = {}
    /\ IF ValidationError(v, a, i) # << >>
       THEN /\ pc' = "Rejected"
            /\ error' = ValidationError(v, a, i)
            /\ removed_partial' = FALSE
            /\ UNCHANGED fs
       ELSE /\ pc' = "FetchAudio"
            /\ error' = << >>
            /\ removed_partial' = \E p \in WorkingPaths(v) : fs[p] = "partial"
            /\ fs' = RemoveExisting(fs, v)

\* The first request the server receives.
NewRequest ==
    /\ pc = "Idle"
    /\ \E v \in Variants, a \in JobUrls, i \in JobUrls : Entry(v, a, i)
    /\ UNCHANGED <<subs_path, cmd, proc, printed, trace, dlVars>>
    /\ UNCHANGED <<ffmpeg_exists, unitVars, raceVars>>

\* The handler has returned its response or raised: its locals are gone,
\* ./tmp is left as it is.
HandlerReturns ==
    /\ pc \in {"Done", "Failed", "Rejected"}
    /\ pc' = "Returned"
    /\ audio_url' = << >>
    /\ image_url' = << >>
    /\ subs_path' = NoneP
    /\ cmd' = NoCmd
    /\ proc' = NoProc
    /\ error' = << >>
    /\ printed' = << >>
    /\ trace' = << >>
    /\ ffmpeg_exists' = "unchecked"
    /\ fresh' = {}
    /\ stale' = {}
    /\ removed_partial' = FALSE
    /\ dl_pc' = "idle"
    /\ dl_url' = << >>
    /\ dl_dest' = NoneP
    /\ file_id' = << >>
    /\ attempt' = 0
    /\ response' = NoResponse
    /\ requests' = << >>
    /\ outcomes' = << >>
    /\ dl_result' = "none"
    /\ caught' = FALSE
    /\ UNCHANGED <<variant, fs, unitVars, raceVars>>

\* The next request of the same variant.
NextRequest ==
    /\ pc = "Returned"
    /\ \E a \in JobUrls, i \in JobUrls : Entry(variant, a, i)
    /\ UNCHANGED <<subs_path, cmd, proc, printed, trace, dlVars>>
    /\ UNCHANGED <<ffmpeg_exists, unitVars, raceVars>>

\* The handler calls download_file(url, path).
CallDownload(step, url, path) ==
    /\ dl_pc = "idle"
    /\ dl_pc' = "start"
    /\ dl_url' = url
    /\ dl_dest' = path
    /\ file_id' = << >>
    /\ attempt' = 0
    /\ response' = NoResponse
    /\ requests' = << >>
    /\ outcomes' = << >>
    /\ dl_result' = "none"
    /\ caught' = FALSE
    /\ trace' = Started(trace, step)
    /\ UNCHANGED <<variant, audio_url, image_url, pc, fs, fresh, subs_path, cmd, proc,
                   error, printed>>
    /\ UNCHANGED <<ffmpeg_exists, stale, removed_partial, unitVars, raceVars>>

\* download_file returned: "if not download_file(...): raise", caught and
\* re-raised by the handler's except clause.
ReturnDownload(next, msg) ==
    /\ dl_pc = "done"
    /\ dl_pc' = "idle"
    /\ trace' = Finished(trace, dl_result = "true")
    /\ IF dl_result = "true"
       THEN /\ pc' = next
            /\ UNCHANGED error
       ELSE /\ pc' = "Failed"
            /\ error' = <<"Failed to download files: ", msg>>
    /\ UNCHANGED <<variant, audio_url, image_url, fs, fresh, subs_path, cmd, proc,
                   printed, dl_url, dl_dest, file_id, attempt, response,
                   requests, outcomes, dl_result, caught>>
    /\ UNCHANGED <<ffmpeg_exists, stale, removed_partial, unitVars, raceVars>>

\* Verify with the raise left out: a failed verification is logged and the
\* handler goes on.
Verify_NoRaise(step, path, next, msg) ==
    /\ trace' = Finished(Started(trace, step), verify_file(fs[path]))
    /\ stale' = stale \cup StaleOf({path})
    /\ pc' = next
    /\ UNCHANGED <<variant, audio_url, image_url, fs, fresh, subs_path, cmd, proc,
                   error, printed, dlVars>>
    /\ UNCHANGED <<ffmpeg_exists, removed_partial, unitVars, raceVars>>

\* "if not verify_file(...): raise", caught and re-raised likewise.
Verify(step, path, next, msg) ==
    /\ trace' = Finished(Started(trace, step), verify_file(fs[path]))
    /\ stale' = stale \cup StaleOf({path})
    /\ IF verify_file(fs[path])
       THEN /\ pc' = next
            /\ UNCHANGED error
       ELSE /\ pc' = "Failed"
            /\ error' = <<"Failed to download files: ", msg>>
    /\ UNCHANGED <<variant, audio_url, image_url, fs, fresh, subs_path, cmd, proc,
                   printed, dlVars>>
    /\ UNCHANGED <<ffmpeg_exists, removed_partial, unitVars, raceVars>>

FetchAudioCall ==
    /\ pc = "FetchAudio"
    /\ CallDownload("fetch_audio", audio_url, audio_path(variant))

FetchAudioReturn ==
    /\ pc = "FetchAudio"
    /\ ReturnDownload("VerifyAudio", "Failed to download audio file")

VerifyAudio ==
    /\ pc = "VerifyAudio"
    /\ Verify("verify_audio", audio_path(variant), "FetchImage",
              "Audio download failed or file is invalid")

FetchImageCall ==
    /\ pc = "FetchImage"
    /\ CallDownload("fetch_image", image_url, image_path(variant))

FetchImageReturn ==
    /\ pc = "FetchImage"
    /\ ReturnDownload("VerifyImage", "Failed to download image file")

VerifyImage ==
    /\ pc = "VerifyImage"
    /\ Verify("verify_image", image_path(variant), "Transcribing",
              "Image download failed or file is invalid")

\* NextAfter without the outer try around transcribe_audio: its exception
\* leaves the handler.
NextAfter_TranscribeUncaught(stage, raised) ==
    IF stage = "transcribe" THEN (IF raised THEN "Failed" ELSE "Karaoke")
    ELSE IF stage = "karaoke" THEN (IF raised THEN "Fallback" ELSE "Rendering")
    ELSE "Rendering"

\* NextAfter without an except clause around the fallback: an exception of
\* create_enhanced_srt leaves the handler.
NextAfter_FallbackUncaught(stage, raised) ==
    IF stage = "transcribe" THEN (IF raised THEN "Rendering" ELSE "Karaoke")
    ELSE IF stage = "karaoke" THEN (IF raised THEN "Fallback" ELSE "Rendering")
    ELSE (IF raised THEN "Failed" ELSE "Rendering")

\* Control flow of the nested try blocks of the subtitle stage: where the
\* handler goes after a stage that raised or completed.
NextAfter(stage, raised) ==
    IF stage = "transcribe" THEN (IF raised THEN "Rendering" ELSE "Karaoke")
    ELSE IF stage = "karaoke" THEN (IF raised THEN "Fallback" ELSE "Rendering")
    ELSE "Rendering"

\* SubsAfter with the fallback branch assigning the karaoke path.
SubsAfter_FallbackAssignsAss(stage, raised, v, sp) ==
    IF stage = "transcribe" THEN NoneP
    ELSE IF stage = "karaoke" THEN (IF raised THEN sp ELSE subs_path_ass(v))
    ELSE (IF raised THEN NoneP ELSE subs_path_ass(v))

\* The value of subs_path after a stage, given its value sp before it.
SubsAfter(stage, raised, v, sp) ==
    IF stage = "transcribe" THEN NoneP
    ELSE IF stage = "karaoke" THEN (IF raised THEN sp ELSE subs_path_ass(v))
    ELSE (IF raised THEN NoneP ELSE subs_path_srt(v))

\* subs_path = None; segments = transcribe_audio(...), inside the outer try.
Transcribe ==
    /\ pc = "Transcribing"
    /\ \E raised \in BOOLEAN :
        /\ trace' = Finished(Started(trace, "transcribe"), ~raised)
        /\ subs_path' = SubsAfter("transcribe", raised, variant, NoneP)
        /\ pc' = NextAfter("transcribe", raised)
    /\ stale' = stale \cup StaleOf({audio_path(variant)})
    /\ UNCHANGED <<variant, audio_url, image_url, fs, fresh, cmd, proc, error, printed,
                   dlVars>>
    /\ UNCHANGED <<ffmpeg_exists, removed_partial, unitVars, raceVars>>

\* words_to_karaoke_ass inside the inner try; it completes, or it raises
\* before creating the file or after having written part of it.
Karaoke ==
    /\ pc = "Karaoke"
    /\ \E raised \in BOOLEAN :
        /\ \E f \in (IF raised
                     THEN {fs[subs_path_ass(variant)], "empty", "partial"}
                     ELSE {"data"}) :
                IF raised /\ f = fs[subs_path_ass(variant)]
                THEN UNCHANGED <<fs, fresh>>
                ELSE Written(subs_path_ass(variant), f)
        /\ trace' = Finished(Started(trace, "karaoke"), ~raised)
        /\ subs_path' = SubsAfter("karaoke", raised, variant, subs_path)
        /\ pc' = NextAfter("karaoke", raised)
    /\ UNCHANGED <<variant, audio_url, image_url, cmd, proc, error, printed,
                   dlVars>>
    /\ UNCHANGED <<ffmpeg_exists, stale, removed_partial, unitVars, raceVars>>

\* create_enhanced_srt inside the inner except clause; its own exception is
\* caught by the outer except clause.  A track without cues is a zero-length
\* file.
Fallback ==
    /\ pc = "Fallback"
    /\ \E raised \in BOOLEAN :
        /\ \E f \in (IF raised
                     THEN {fs[subs_path_srt(variant)], "empty", "partial"}
                     ELSE {"data", "empty"}) :
                IF raised /\ f = fs[subs_path_srt(variant)]
                THEN UNCHANGED <<fs, fresh>>
                ELSE Written(subs_path_srt(variant), f)
        /\ trace' = Finished(Started(trace, "fallback"), ~raised)
        /\ subs_path' = SubsAfter("fallback", raised, variant, subs_path)
        /\ pc' = NextAfter("fallback", raised)
    /\ UNCHANGED <<variant, audio_url, image_url, cmd, proc, error, printed,
                   dlVars>>
    /\ UNCHANGED <<ffmpeg_exists, stale, removed_partial, unitVars, raceVars>>

\* Render without "if not os.path.exists(ffmpeg_path): raise".
Render_NoExecutableCheck ==
    /\ pc = "Rendering"
    /\ trace' = Started(trace, "render")
    /\ ffmpeg_exists' \in {"found", "missing"}
    /\ pc' = "Launch"
    /\ cmd' = BuildCmd(variant, audio_path(variant), image_path(variant),
                       video_path(variant), PassedSubs(variant, subs_path))
    /\ stale' = stale \cup StaleOf({audio_path(variant), image_path(variant)}
                            \cup ({PassedSubs(variant, subs_path)} \ {NoneP}))
    /\ UNCHANGED error
    /\ UNCHANGED <<variant, audio_url, image_url, fs, fresh, subs_path, proc, printed,
                   dlVars>>
    /\ UNCHANGED <<removed_partial, unitVars, raceVars>>

\* process_video(_short) up to the launch: the executable check and the
\* command line.
Render ==
    /\ pc = "Rendering"
    /\ trace' = Started(trace, "render")
    /\ ffmpeg_exists' \in {"found", "missing"}
    /\ IF ffmpeg_exists' = "missing"
       THEN /\ pc' = "Failed"
            /\ error' = <<"FFmpeg executable not found">>
            /\ UNCHANGED <<cmd, stale>>
       ELSE /\ pc' = "Launch"
            /\ cmd' = BuildCmd(variant, audio_path(variant), image_path(variant),
                               video_path(variant), PassedSubs(variant, subs_path))
            /\ stale' = stale \cup StaleOf({audio_path(variant), image_path(variant)}
                                    \cup ({PassedSubs(variant, subs_path)} \ {NoneP}))
            /\ UNCHANGED error
    /\ UNCHANGED <<variant, audio_url, image_url, fs, fresh, subs_path, proc, printed,
                   dlVars>>
    /\ UNCHANGED <<removed_partial, unitVars, raceVars>>

\* subprocess.run, the return code test, the output checks and the except
\* clauses.
RunRenderer ==
    /\ pc = "Launch"
    /\ \E p \in ProcResults :
        /\ proc' = p
        /\ \E f \in OutputKinds(p) : Written(cmd.out, f)
        /\ printed' = printed \o RenderPrints(p)
        /\ IF RenderBody(p, fs'[cmd.out]) = NoExc
           THEN /\ pc' = "Done"
                /\ trace' = Finished(trace, TRUE)
                /\ UNCHANGED error
           ELSE /\ pc' = "Failed"
                /\ trace' = Finished(trace, FALSE)
                /\ error' = RenderExcept(RenderBody(p, fs'[cmd.out]))
    /\ UNCHANGED <<variant, audio_url, image_url, subs_path, cmd, dlVars>>
    /\ UNCHANGED <<ffmpeg_exists, stale, removed_partial, unitVars, raceVars>>

\* ------------------------------------------------------------------------
\* Two requests of one variant served by two server processes that share the
\* working directory
\* ------------------------------------------------------------------------
RaceJobs == {1, 2}

\* What a working path holds and which job put it in that state (0: nobody).
WrittenBy(j) == [by |-> j, present |-> TRUE]

RaceVariant == CHOOSE v \in Variants : DOMAIN owner = WorkingPaths(v)

JobAt(j, step) == jobs[j].pc = step
GoTo(j, step) == jobs' = [jobs EXCEPT ![j].pc = step]

\* Job j reads the paths ps in the named step.
ReadsOf(j, step, ps) ==
    {[job |-> j, step |-> step, path |-> p] : p \in {q \in ps : owner[q].by # j}}

\* Handler entry: "if os.path.exists(path): os.remove(path)" for the five
\* working paths, audio and image first.  While a response has the output
\* file open, os.remove of it succeeds where the platform lets an open file
\* be unlinked and raises where it does not; the exception ends the job.
RaceArrive ==
    \E j \in RaceJobs :
        /\ JobAt(j, "Idle")
        /\ \/ /\ GoTo(j, "FetchAudio")
              /\ owner' = [p \in DOMAIN owner |->
                              IF owner[p].present THEN [by |-> j, present |-> FALSE]
                              ELSE owner[p]]
           \/ /\ \E k \in RaceJobs : JobAt(k, "Streaming")
              /\ owner[video_path(RaceVariant)].present
              /\ GoTo(j, "Failed")
              /\ owner' = [p \in DOMAIN owner |->
                              IF /\ owner[p].present
                                 /\ p \in {audio_path(RaceVariant), image_path(RaceVariant)}
                              THEN [by |-> j, present |-> FALSE]
                              ELSE owner[p]]
        /\ UNCHANGED foreign
        /\ UNCHANGED <<jobVars, fs, fresh, dlVars, unitVars>>

\* download_file(audio_url, audio_path) / download_file(image_url, image_path):
\* the file is written, or the download fails and the job ends.
RaceFetch ==
    \E j \in RaceJobs, a \in {"Audio", "Image"} :
        LET path == IF a = "Audio" THEN audio_path(RaceVariant)
                    ELSE image_path(RaceVariant)
        IN  /\ JobAt(j, "Fetch" \o a)
            /\ \/ /\ owner' = [owner EXCEPT ![path] = WrittenBy(j)]
                  /\ GoTo(j, "Verify" \o a)
               \/ /\ UNCHANGED owner
                  /\ GoTo(j, "Failed")
            /\ UNCHANGED foreign
            /\ UNCHANGED <<jobVars, fs, fresh, dlVars, unitVars>>

\* verify_file(audio_path, "Audio") / verify_file(image_path, "Image").
RaceVerify ==
    \E j \in RaceJobs, a \in {"Audio", "Image"} :
        LET path == IF a = "Audio" THEN audio_path(RaceVariant)
                    ELSE image_path(RaceVariant)
        IN  /\ JobAt(j, "Verify" \o a)
            /\ foreign' = foreign \cup ReadsOf(j, "verify", {path})
            /\ IF owner[path].present
               THEN GoTo(j, IF a = "Audio" THEN "FetchImage" ELSE "Transcribing")
               ELSE GoTo(j, "Failed")
            /\ UNCHANGED owner
            /\ UNCHANGED <<jobVars, fs, fresh, dlVars, unitVars>>

\* transcribe_audio(audio_path) and the two synthesizers inside the outer
\* try: the karaoke track, else the fallback track, else no track.
RaceSubtitle ==
    \E j \in RaceJobs :
        /\ JobAt(j, "Transcribing")
        /\ foreign' = foreign \cup ReadsOf(j, "transcribe", {audio_path(RaceVariant)})
        /\ \/ /\ owner[audio_path(RaceVariant)].present
              /\ \E sp \in {subs_path_ass(RaceVariant), subs_path_srt(RaceVariant)} :
                    /\ owner' = [owner EXCEPT ![sp] = WrittenBy(j)]
                    /\ jobs' = [jobs EXCEPT ![j] = [pc |-> "Render", subs_path |-> sp]]
           \/ /\ UNCHANGED owner
              /\ jobs' = [jobs EXCEPT ![j] = [pc |-> "Render", subs_path |-> NoneP]]
        /\ UNCHANGED <<jobVars, fs, fresh, dlVars, unitVars>>

\* process_video / process_video_short: the renderer reads the image, the
\* audio and the track it was given, and writes the output.
RaceRender ==
    \E j \in RaceJobs :
        LET v == RaceVariant
            inputs == {audio_path(v), image_path(v)}
                        \cup ({PassedSubs(v, jobs[j].subs_path)} \ {NoneP})
        IN  /\ JobAt(j, "Render")
            /\ foreign' = foreign \cup ReadsOf(j, "render", inputs)
            /\ IF \A p \in inputs : owner[p].present
               THEN /\ owner' = [owner EXCEPT ![video_path(v)] = WrittenBy(j)]
                    /\ GoTo(j, "Done")
               ELSE /\ UNCHANGED owner
                    /\ GoTo(j, "Failed")
            /\ UNCHANGED <<jobVars, fs, fresh, dlVars, unitVars>>

\* The FileResponse the handler returned is sent after the handler has
\* returned: the output file is opened if it is still there, then read and
\* sent chunk by chunk, other requests being served in between.
RaceStream ==
    \E j \in RaceJobs :
        /\ \/ /\ JobAt(j, "Done")
              /\ GoTo(j, IF owner[video_path(RaceVariant)].present
                         THEN "Streaming" ELSE "ResponseFailed")
           \/ /\ JobAt(j, "Streaming")
              /\ GoTo(j, "Sent")
        /\ UNCHANGED <<owner, foreign>>
        /\ UNCHANGED <<jobVars, fs, fresh, dlVars, unitVars>>

\* Handler entry within one event loop: a handler, which never suspends,
\* runs to its end before the next request is taken up, so that at most one
\* handler is between its entry and its return.
SerialArrive ==
    /\ RaceArrive
    /\ Cardinality({j \in RaceJobs :
          jobs'[j].pc \notin {"Idle", "Done", "Failed", "Streaming", "Sent",
                              "ResponseFailed"}}) <= 1

Init ==
    /\ variant = "standard"
    /\ audio_url = << >>
    /\ image_url = << >>
    /\ pc = "Idle"
    /\ fs \in {EmptyFs, LeftoverFs}
    /\ subs_path = NoneP
    /\ cmd = NoCmd
    /\ proc = NoProc
    /\ error = << >>
    /\ printed = << >>
    /\ trace = << >>
    /\ ffmpeg_exists = "unchecked"
    /\ fresh = {}
    /\ stale = {}
    /\ removed_partial = FALSE
    /\ dl_pc = "idle"
    /\ dl_url = << >>
    /\ dl_dest = NoneP
    /\ file_id = << >>
    /\ attempt = 0
    /\ response = NoResponse
    /\ requests = << >>
    /\ outcomes = << >>
    /\ dl_result = "none"
    /\ caught = FALSE
    /\ UnitIdle

Next ==
    \/ NewRequest
    \/ FetchAudioCall
    \/ FetchAudioReturn
    \/ VerifyAudio
    \/ FetchImageCall
    \/ FetchImageReturn
    \/ VerifyImage
    \/ Transcribe
    \/ Karaoke
    \/ Fallback
    \/ Render
    \/ RunRenderer
    \/ DownloadFile
    \/ DriveExtract
    \/ DriveRequest
    \/ DriveInspect
    \/ DriveBypass
    \/ DriveWrite
    \/ RegularDownload

Spec == Init /\ [][Next]_vars

\* The handler runs to completion once a request has arrived.
FairSpec == Spec /\ WF_vars(Next)

\* ------------------------------------------------------------------------
\* Specification of one download_file call on an arbitrary bounded URL
\* ------------------------------------------------------------------------
InitFetch ==
    /\ variant = "standard"
    /\ audio_url = << >>
    /\ image_url = << >>
    /\ pc = "Idle"
    /\ fs \in {EmptyFs, LeftoverFs}
    /\ subs_path = NoneP
    /\ cmd = NoCmd
    /\ proc = NoProc
    /\ error = << >>
    /\ printed = << >>
    /\ trace = << >>
    /\ ffmpeg_exists = "unchecked"
    /\ fresh = {}
    /\ stale = {}
    /\ removed_partial = FALSE
    /\ dl_pc = "start"
    /\ dl_url \in Urls
    /\ dl_dest = audio_path("standard")
    /\ file_id = << >>
    /\ attempt = 0
    /\ response = NoResponse
    /\ requests = << >>
    /\ outcomes = << >>
    /\ dl_result = "none"
    /\ caught = FALSE
    /\ UnitIdle

NextFetch ==
    \/ DownloadFile
    \/ DriveExtract
    \/ DriveRequest
    \/ DriveInspect
    \/ DriveBypass
    \/ DriveWrite
    \/ RegularDownload

SpecFetch == InitFetch /\ [][NextFetch]_vars

\* download_file called with one of the URLs a request may carry.
InitDrive ==
    /\ variant = "standard"
    /\ audio_url = << >>
    /\ image_url = << >>
    /\ pc = "Idle"
    /\ fs \in {EmptyFs, LeftoverFs}
    /\ subs_path = NoneP
    /\ cmd = NoCmd
    /\ proc = NoProc
    /\ error = << >>
    /\ printed = << >>
    /\ trace = << >>
    /\ ffmpeg_exists = "unchecked"
    /\ fresh = {}
    /\ stale = {}
    /\ removed_partial = FALSE
    /\ dl_pc = "start"
    /\ dl_url \in JobUrls
    /\ dl_dest = audio_path("standard")
    /\ file_id = << >>
    /\ attempt = 0
    /\ response = NoResponse
    /\ requests = << >>
    /\ outcomes = << >>
    /\ dl_result = "none"
    /\ caught = FALSE
    /\ UnitIdle

SpecDrive == InitDrive /\ [][NextFetch]_vars

\* verify_file on its own: one call on any of the files.
InitVerify ==
    /\ HandlersIdle
    /\ file_bytes \in Files
    /\ verified = "none"
    /\ SubsIdle
    /\ TimeIdle
    /\ RaceIdle

NextVerify == VerifyFile

SpecVerify == InitVerify /\ [][NextVerify]_vars

\* The subtitle functions on their own: any recognized transcript and either
\* cap, cleaned by transcribe_audio and handed to both synthesizers.
InitSubs ==
    /\ HandlersIdle
    /\ VerifyIdle
    /\ segments \in RawTranscripts
    /\ max_time \in {NoCap, ShortCap}
    /\ sub_pc = "recognized"
    /\ ass_cues = << >>
    /\ srt_cues = << >>
    /\ srt_chunks = << >>
    /\ recognized = segments
    /\ TimeIdle
    /\ RaceIdle

NextSubs ==
    \/ Transcribed
    \/ WriteKaraoke
    \/ WriteSrt

SpecSubs == InitSubs /\ [][NextSubs]_vars

\* The two time formatters on their own.
InitTime ==
    /\ HandlersIdle
    /\ VerifyIdle
    /\ SubsIdle
    /\ stamp \in Stamps
    /\ ass_time = << >>
    /\ srt_time = << >>
    /\ fmt_pc = "given"
    /\ RaceIdle

NextTime ==
    \/ FormatAss
    \/ FormatSrt

SpecTime == InitTime /\ [][NextTime]_vars

\* Two requests of the same variant, each served by its own process.
InitRace ==
    /\ HandlersIdle
    /\ VerifyIdle
    /\ SubsIdle
    /\ TimeIdle
    /\ jobs = [j \in RaceJobs |-> [pc |-> "Idle", subs_path |-> NoneP]]
    /\ \E v \in Variants :
          \E left \in SUBSET WorkingPaths(v) :
            owner = [p \in WorkingPaths(v) |->
                        IF p \in left THEN WrittenBy(0) ELSE [by |-> 0, present |-> FALSE]]
    /\ foreign = {}

NextRace ==
    \/ RaceArrive
    \/ RaceFetch
    \/ RaceVerify
    \/ RaceSubtitle
    \/ RaceRender
    \/ RaceStream

SpecRace == InitRace /\ [][NextRace]_vars

\* The same requests served by one event loop.
NextStream ==
    \/ SerialArrive
    \/ RaceFetch
    \/ RaceVerify
    \/ RaceSubtitle
    \/ RaceRender
    \/ RaceStream

SpecStream == InitRace /\ [][NextStream]_vars

\* Requests of one variant served one after the other.
NextJobs ==
    \/ Next
    \/ HandlerReturns
    \/ NextRequest

SpecJobs == Init /\ [][NextJobs]_vars

\* ------------------------------------------------------------------------
\* Properties
\* ------------------------------------------------------------------------
\* The state of the orchestrator's state machine at a handler position.
JobState ==
    CASE pc \in {"FetchAudio", "FetchImage"}   -> "Fetching"
      [] pc \in {"VerifyAudio", "VerifyImage"} -> "Verifying"
      [] pc \in {"Karaoke", "Fallback"}        -> "SubtitlingBestEffort"
      [] pc \in {"Rendering", "Launch"}        -> "Rendering"
      [] OTHER                                 -> pc

Has(step, status) ==
    \E k \in 1..Len(trace) : trace[k] = [step |-> step, status |-> status]

LastStep == IF trace = << >> THEN "none" ELSE trace[Len(trace)].step

FetchSteps == <<"fetch_audio", "verify_audio", "fetch_image", "verify_image">>

BothAssetsVerified ==
    /\ Len(trace) >= 4
    /\ \A j \in 1..4 : trace[j] = [step |-> FetchSteps[j], status |-> "ok"]

\* The subtitle filters of a built command.
SubsFilters(c) ==
    {c.vf[k] : k \in {j \in 1..Len(c.vf) : c.vf[j].name \in {"ass", "subtitles"}}}

RendererSucceeded ==
    /\ proc.outcome = "exit"
    /\ proc.returncode = 0
    /\ Exists(fs[video_path(variant)])
    /\ NonEmpty(fs[video_path(variant)])

\* C1: in either variant, when both assets were fetched and verified and the
\* speech-to-text step raised, the handler goes on to the render step, the
\* track is absent and the command has no subtitle filter, the job can only
\* fail in the render step, and it is Done when the renderer exited with 0
\* and left a non-empty output file.
C1_TranscriptionFailureStillRenders ==
    Has("transcribe", "failed") =>
        /\ BothAssetsVerified
        /\ pc \in {"Rendering", "Launch", "Done", "Failed"}
        /\ subs_path = NoneP
        /\ ~Has("karaoke", "ok") /\ ~Has("fallback", "ok")
        /\ cmd # NoCmd => SubsFilters(cmd) = {}
        /\ pc \in {"Launch", "Done", "Failed"} => LastStep = "render"
        /\ RendererSucceeded => pc = "Done"

C1_Witness ==
    /\ variant = "short"
    /\ Has("transcribe", "failed")
    /\ RendererSucceeded
    /\ pc = "Done"

EntersFailed == pc' = "Failed" /\ pc # "Failed"
BestEffort == {"Transcribing", "Karaoke", "Fallback"}
InBestEffort == pc \in BestEffort

\* C2: Failed is entered only from Fetching, Verifying or Rendering; the
\* transcription and subtitle stages only move on to one another or to
\* Rendering; and a job whose assets are verified reaches Rendering.
C2_FailedOnlyFromFetchVerifyRender ==
    /\ [][EntersFailed => JobState \in {"Fetching", "Verifying", "Rendering"}]_vars
    /\ [][InBestEffort => pc' \in (BestEffort \cup {"Rendering"})]_vars
    /\ (pc = "Transcribing") ~> (pc = "Rendering")

C2_Witness ==
    /\ Has("karaoke", "failed")
    /\ Has("fallback", "failed")
    /\ pc = "Rendering"

\* C3: once the command is built, a present track appears in it as the
\* subtitle filter of its format (ass for a karaoke track, subtitles with a
\* style for a plain track), and an absent track leaves it without one.
C3_SubtitleFilterMatchesTrack ==
    cmd # NoCmd =>
        IF subs_path = NoneP
        THEN SubsFilters(cmd) = {}
        ELSE /\ Cardinality(SubsFilters(cmd)) = 1
             /\ \A f \in SubsFilters(cmd) :
                    /\ f.path = subs_path
                    /\ \/ subs_path.ext = "ass" /\ f.name = "ass"
                       \/ /\ subs_path.ext = "srt"
                          /\ f.name = "subtitles"
                          /\ f.style # NoStyle

\* C4: fetch-audio, verify-audio, fetch-image, verify-image run in this order
\* one at a time; a failed one is the last step of the job, which is then
\* Failed with nothing rendered; transcription and rendering positions are
\* reached only with all four steps passed and both files passing verify.
C4_FetchVerifySequential ==
    /\ \A k \in 1..Len(trace) :
        /\ k <= 4 => trace[k].step = FetchSteps[k]
        /\ k > 4 => trace[k].step \notin Range(FetchSteps) /\ BothAssetsVerified
        /\ trace[k].status = "running" => k = Len(trace)
        /\ (k <= 4 /\ trace[k].status = "failed") =>
                /\ k = Len(trace)
                /\ pc = "Failed"
                /\ dl_pc = "idle"
                /\ cmd = NoCmd
                /\ proc = NoProc
    /\ dl_pc # "idle" =>
        /\ trace # << >>
        /\ trace[Len(trace)].status = "running"
        /\ LastStep = (IF pc = "FetchAudio" THEN "fetch_audio" ELSE "fetch_image")
        /\ pc \in {"FetchAudio", "FetchImage"}
    /\ pc \in {"Transcribing", "Karaoke", "Fallback", "Rendering", "Launch", "Done"} =>
        /\ BothAssetsVerified
        /\ verify_file(fs[audio_path(variant)])
        /\ verify_file(fs[image_path(variant)])

C4_Witness ==
    /\ pc = "Failed"
    /\ Len(trace) = 4
    /\ trace[4] = [step |-> "verify_image", status |-> "failed"]

\* C5 as stated: after a non-zero exit the job is Failed and the surfaced
\* error carries the captured standard error and standard output.
C5_StreamsAttachedToError ==
    (proc.outcome = "exit" /\ proc.returncode # 0) =>
        /\ pc = "Failed"
        /\ proc.stderr \in Range(error)
        /\ proc.stdout \in Range(error)

\* C5 amended: after a non-zero exit the job is Failed, the surfaced error names
\* the return code only, and the captured standard output and standard error
\* are written to the log.
C5_NonZeroExitFailsAndLogsStreams ==
    (proc.outcome = "exit" /\ proc.returncode # 0) =>
        /\ pc = "Failed"
        /\ error = <<"Video generation failed: ",
                     "FFmpeg failed with return code ", Str(proc.returncode)>>
        /\ printed = <<proc.stdout, proc.stderr>>

C5_Witness ==
    /\ pc = "Failed"
    /\ proc.outcome = "exit"
    /\ proc.returncode # 0
    /\ proc.stderr = "stderr text"

\* C6: a job is Done only after exit code 0 with an existing, non-empty output
\* file; exit code 0 with a missing or empty output file ends in Failed.
C6_DoneOnlyWithValidOutput ==
    /\ pc = "Done" =>
        /\ proc.outcome = "exit"
        /\ proc.returncode = 0
        /\ Exists(fs[video_path(variant)])
        /\ NonEmpty(fs[video_path(variant)])
    /\ (/\ proc.outcome = "exit"
        /\ proc.returncode = 0
        /\ ~(Exists(fs[video_path(variant)]) /\ NonEmpty(fs[video_path(variant)])))
       => (pc = "Failed" /\ LastStep = "render")

C6_Witness ==
    /\ pc = "Failed"
    /\ proc.outcome = "exit"
    /\ proc.returncode = 0
    /\ fs[video_path(variant)] = "empty"

TimedOutError == <<"Video generation timed out">>
ProcessFailurePrefix == "Video generation failed: "

\* C7: a timeout surfaces as the timed-out error and never as the generic
\* process failure; a non-zero exit, a failed output check or a launch error
\* surfaces as the generic process failure and never as the timed-out error.
C7_TimeoutDistinctFromProcessFailure ==
    /\ proc.outcome = "timeout" =>
        /\ pc = "Failed"
        /\ error = TimedOutError
        /\ error[1] # ProcessFailurePrefix
    /\ (proc.outcome \in {"exit", "oserror"} /\ pc = "Failed") =>
        /\ error[1] = ProcessFailurePrefix
        /\ error # TimedOutError

C7_Witness ==
    /\ proc.outcome = "timeout"
    /\ pc = "Failed"

AtOrAfterRender ==
    \/ pc \in {"Rendering", "Launch", "Done"}
    \/ pc = "Failed" /\ LastStep = "render"

\* C8: karaoke synthesis directly follows a completed transcription; the
\* fallback runs exactly when karaoke raised, right after it; at the render
\* step subs_path is the karaoke path if karaoke completed, the plain path if
\* karaoke raised and the fallback completed, and absent otherwise; after both
\* raised the job is at the render step.
C8_KaraokeFirstThenFallback ==
    /\ \A k \in 1..Len(trace) :
        /\ trace[k].step = "karaoke" =>
                k > 1 /\ trace[k - 1] = [step |-> "transcribe", status |-> "ok"]
        /\ trace[k].step = "fallback" =>
                k > 1 /\ trace[k - 1] = [step |-> "karaoke", status |-> "failed"]
        /\ trace[k] = [step |-> "karaoke", status |-> "failed"] =>
                IF k = Len(trace) THEN pc = "Fallback"
                ELSE trace[k + 1].step = "fallback"
        /\ trace[k] = [step |-> "karaoke", status |-> "ok"] =>
                k = Len(trace) \/ trace[k + 1].step = "render"
    /\ AtOrAfterRender =>
        subs_path = IF Has("karaoke", "ok") THEN subs_path_ass(variant)
                    ELSE IF Has("fallback", "ok") THEN subs_path_srt(variant)
                    ELSE NoneP
    /\ Has("fallback", "failed") => AtOrAfterRender

C8_Witness ==
    /\ Has("karaoke", "failed")
    /\ Has("fallback", "ok")
    /\ pc = "Rendering"
    /\ subs_path = subs_path_srt(variant)

CandidateForms == <<"original", "uc_export", "uc_export_confirm", "docs_export">>

IsCandidate(r) == r.kind = "candidate"

\* The call is download_google_drive_file past the extraction of an
\* identifier.
DriveWithId ==
    /\ file_id # << >>
    /\ HasSub(dl_url, S_drive)

\* C9: for a sharing-link URL with an identifier, the candidates requested are
\* the original URL, the export URL, the export URL with confirm and the
\* alternate host's export URL, in this order; a candidate is requested only
\* when all earlier ones failed and none after a success; and the call
\* returns True only with a non-HTML response written to a non-empty file.
C9_CandidatesInOrderUntilSuccess ==
    DriveWithId =>
        LET cands == SelectSeq(requests, IsCandidate) IN
        /\ Len(cands) <= 4
        /\ \A k \in 1..Len(cands) :
            /\ cands[k].n = k
            /\ cands[k].url.form = CandidateForms[k]
            /\ cands[k].url.arg = IF k = 1 THEN dl_url ELSE file_id
            /\ \A j \in 1..(k - 1) : Len(outcomes) >= j /\ outcomes[j] = "failed"
        /\ \A j \in 1..Len(outcomes) :
            outcomes[j] = "verified" =>
                /\ j = Len(outcomes)
                /\ Len(cands) = j
                /\ dl_result = "true"
        /\ dl_result = "true" =>
            /\ outcomes # << >>
            /\ outcomes[Len(outcomes)] = "verified"
            /\ ~response.html
            /\ fs[dl_dest] = response.body
            /\ Exists(fs[dl_dest])
            /\ NonEmpty(fs[dl_dest])

C9_Witness ==
    /\ DriveWithId
    /\ dl_result = "true"
    /\ Len(outcomes) = 4
    /\ Len(SelectSeq(requests, IsCandidate)) = 4

\* The download is one of a sharing-link URL without an extractable
\* identifier (file_id is then never set).
DriveWithoutId ==
    /\ file_id = << >>
    /\ HasSub(dl_url, S_drive)
    /\ extract_file_id_from_url(dl_url) = << >>

\* C10: for a sharing-link URL without an extractable identifier the call
\* returns False, no request is ever issued and no file is written.
C10_NoIdentifierNoRequest ==
    /\ [](DriveWithoutId =>
            /\ requests = << >>
            /\ dl_result # "true"
            /\ dl_pc = "done" => dl_result = "false")
    /\ [][DriveWithoutId => (fs' = fs /\ requests' = requests)]_vars

C10_Witness ==
    /\ DriveWithoutId
    /\ dl_pc = "done"
    /\ dl_result = "false"

\* C11: download_file never raises to its caller: whatever the URL and
\* whatever a request or a write does, the call ends with a boolean; an
\* exception in one Drive candidate is caught and the loop goes on to the
\* next candidate; when every candidate has failed the call returns False;
\* an exception on a generic URL makes the call return False.
Returned == dl_pc = "done"

NextCandidateOrFalse ==
    IF attempt < Len(CandidateForms)
    THEN dl_pc' = "request" /\ attempt' = attempt + 1 /\ dl_result' = "none"
    ELSE Returned' /\ dl_result' = "false"

CaughtStep ==
    caught' => IF dl_pc = "regular"
               THEN Returned' /\ dl_result' = "false"
               ELSE NextCandidateOrFalse

C11_FetchNeverRaises ==
    /\ [](dl_result \in {"none", "true", "false"})
    /\ [](Returned => dl_result \in {"true", "false"})
    /\ []((/\ Len(outcomes) = Len(CandidateForms)
           /\ \A i \in 1..Len(outcomes) : outcomes[i] = "failed")
             => Returned /\ dl_result = "false")
    /\ [][CaughtStep]_vars

\* An exception has just been caught in a Drive candidate that is not the
\* last one, and the loop is about to request the next candidate.
C11_Witness ==
    /\ caught
    /\ dl_pc = "request"
    /\ attempt >= 2
    /\ Len(outcomes) = attempt - 1

\* C12: verify_file returns False when the path does not exist, when the
\* file is empty, or when the first 500 bytes contain "<html" or "<!doctype"
\* written in any mixture of capital and small letters; it returns True for
\* every non-empty file whose first 500 bytes contain no such marker.
SameLetter(a, b) ==
    \/ a = b
    \/ \E k \in 1..Len(Capitals) : {a, b} = {Capitals[k], Smalls[k]}

MarkerAt(bytes, i, marker) ==
    /\ i + Len(marker) - 1 <= Len(bytes)
    /\ \A j \in 1..Len(marker) : SameLetter(bytes[i + j - 1], marker[j])

LeadingBytesHaveMarker(bytes) ==
    \E marker \in {B_html, B_doctype} :
        \E i \in 1..500 :
            /\ i + Len(marker) - 1 <= 500
            /\ MarkerAt(bytes, i, marker)

C12_VerifyRejectsMissingEmptyHtml ==
    verified # "none" =>
        (verified = "false" <=>
            \/ ~file_bytes.exists
            \/ Len(file_bytes.bytes) = 0
            \/ LeadingBytesHaveMarker(file_bytes.bytes))

\* A file whose only marker is written with capitals was rejected.
C12_Witness ==
    /\ verified = "false"
    /\ file_bytes.exists
    /\ Len(file_bytes.bytes) > 0
    /\ ~HasSub(file_bytes.bytes, B_html)
    /\ ~HasSub(file_bytes.bytes, B_doctype)

\* C13: a request of either variant whose audio URL or image URL is empty
\* or does not begin with http:// or https:// is rejected before any file of
\* the working directory is removed or written and before any download is
\* started.
Malformed(u) == u = << >> \/ ~(StartsWith(u, S_http) \/ StartsWith(u, S_https))

ArrivesMalformed ==
    /\ pc = "Idle"
    /\ pc' # "Idle"
    /\ Malformed(audio_url') \/ Malformed(image_url')

RejectedUntouched ==
    /\ pc' = "Rejected"
    /\ fs' = fs
    /\ dl_pc' = "idle"
    /\ requests' = << >>

C13_MalformedUrlRejectedBeforeFetch ==
    /\ [][ArrivesMalformed => RejectedUntouched]_vars
    /\ []((pc # "Idle" /\ (Malformed(audio_url) \/ Malformed(image_url)))
            => pc = "Rejected" /\ trace = << >>)

\* The words of a segment that words_to_karaoke_ass turns into {\k} parts,
\* in order: those that start before the cap and have a text.
KaraokeWritten == sub_pc \in {"karaoke_written", "srt_written"}

HighlightedWords(seg) ==
    LET Shown(w) == (max_time = NoCap \/ w.start < max_time) /\ w.word # << >>
    IN  SelectSeq(seg.words, Shown)

CutByCap(w) == max_time # NoCap /\ w.end > max_time

\* Every word of every karaoke line has its part, and the \k value of a
\* word that is not cut by the cap is Expected(w).
HighlightDurations(Expected(_)) ==
    KaraokeWritten =>
        \A c \in 1..Len(ass_cues) :
            LET ws == HighlightedWords(segments[ass_cues[c].seg])
                parts == ass_cues[c].parts
            IN  /\ Len(parts) = Len(ws)
                /\ \A j \in 1..Len(ws) :
                      (ws[j].start < ws[j].end /\ ~CutByCap(ws[j]))
                        => parts[j].k >= 1 /\ parts[j].k = Expected(ws[j])

RoundedCentis(w) ==
    IF w.end - w.start < 1000 THEN 10
    ELSE RoundHalfEven(w.end - w.start, 100)

FlooredCentis(w) ==
    IF w.end - w.start < 1000 THEN 10
    ELSE (w.end - w.start) \div 100

\* C14 as stated: the highlight duration of a word that is not cut by the
\* cap is at least 1 centisecond and equals round((end - start) * 100), or
\* 10 when end - start is below the 0.1 s floor.
C14_HighlightRounded == HighlightDurations(RoundedCentis)

\* C14: the highlight duration of a word that is not cut by the cap is at
\* least 1 centisecond and equals (end - start) * 100 truncated to an
\* integer, or 10 when end - start is below the 0.1 s floor.
C14_HighlightTruncated == HighlightDurations(FlooredCentis)

\* A line was written for a word of 0.257 s, whose highlight lasts 25 and
\* not 26 centiseconds.
C14_Witness ==
    /\ KaraokeWritten
    /\ \E c \in 1..Len(ass_cues) :
          LET ws == HighlightedWords(segments[ass_cues[c].seg])
          IN  \E j \in 1..Len(ws) :
                /\ j <= Len(ass_cues[c].parts)
                /\ ~CutByCap(ws[j])
                /\ ws[j].end - ws[j].start = 2570
                /\ ass_cues[c].parts[j].k = 25

\* Reading a written time back: the number a run of decimal digits denotes,
\* and the ticks an H:MM:SS.CC or an HH:MM:SS,mmm text stands for.
DigitValue(c) == CHOOSE d \in 0..9 : DigitChars[d + 1] = c

RECURSIVE NumberOf(_)
NumberOf(digits) ==
    IF digits = << >> THEN 0
    ELSE 10 * NumberOf(SubSeq(digits, 1, Len(digits) - 1))
           + DigitValue(digits[Len(digits)])

AssTicks(t) ==
    LET n == Len(t)
    IN  (((NumberOf(SubSeq(t, 1, n - 9)) * 60 + NumberOf(SubSeq(t, n - 7, n - 6))) * 60
           + NumberOf(SubSeq(t, n - 4, n - 3))) * 100
           + NumberOf(SubSeq(t, n - 1, n))) * 100

SrtTicks(t) ==
    LET n == Len(t)
    IN  (((NumberOf(SubSeq(t, 1, n - 10)) * 60 + NumberOf(SubSeq(t, n - 8, n - 7))) * 60
           + NumberOf(SubSeq(t, n - 5, n - 4))) * 1000
           + NumberOf(SubSeq(t, n - 2, n))) * 10

SrtWritten == sub_pc = "srt_written"

RECURSIVE PartsText(_)
PartsText(parts) ==
    IF parts = << >> THEN << >>
    ELSE Head(parts).text \o PartsText(Tail(parts))

\* The words of segment i that start at or beyond the cap and have a text.
LateWords(i) ==
    {segments[i].words[j] : j \in {k \in 1..Len(segments[i].words) :
        /\ segments[i].words[k].start >= max_time
        /\ segments[i].words[k].word # << >>}}

\* C15: in a track built with cap T by either synthesizer no cue starts
\* after T, a segment that starts at or beyond T has no cue, and the text of
\* a word that starts at or beyond T is in no cue.
C15_NothingBeyondCap ==
    max_time # NoCap =>
        /\ KaraokeWritten =>
              \A c \in 1..Len(ass_cues) :
                  /\ AssTicks(ass_cues[c].start_time) <= max_time
                  /\ segments[ass_cues[c].seg].start < max_time
                  /\ \A w \in LateWords(ass_cues[c].seg) :
                        ~HasSub(PartsText(ass_cues[c].parts), w.word)
        /\ SrtWritten =>
              \A c \in 1..Len(srt_cues) :
                  /\ SrtTicks(srt_cues[c].start_time) <= max_time
                  /\ segments[srt_cues[c].seg].start < max_time
                  /\ \A w \in LateWords(srt_cues[c].seg) :
                        ~HasSub(srt_cues[c].text, w.word)

\* The words of all chunks of a segment, in chunk order.
RECURSIVE Flatten(_)
Flatten(chunks) ==
    IF chunks = << >> THEN << >>
    ELSE Head(chunks) \o Flatten(Tail(chunks))

\* Segment i has two or more timed words and none of them starts at or
\* beyond the cap.
ChunkedUncut(i) ==
    /\ Len(segments[i].words) >= 2
    /\ \A j \in 1..Len(segments[i].words) : segments[i].words[j].start < segments[i].words[j].end
    /\ max_time = NoCap
         \/ (/\ segments[i].start < max_time
             /\ \A j \in 1..Len(segments[i].words) : segments[i].words[j].start < max_time)

\* C16: the chunks create_enhanced_srt forms from a segment with n >= 2
\* timed words, none cut by the cap, are the segment's words in order with
\* no word lost or repeated; every chunk but the last has exactly 4 words; a
\* segment of 7 words gives two chunks of 4 and 3 words.
C16_ChunksPartitionWords ==
    SrtWritten =>
        \A i \in 1..Len(segments) :
            ChunkedUncut(i) =>
                LET chunks == srt_chunks[i]
                IN  /\ Flatten(chunks) = segments[i].words
                    /\ \A c \in 1..Len(chunks) : Len(chunks[c]) >= 1
                    /\ \A c \in 1..(Len(chunks) - 1) : Len(chunks[c]) = 4
                    /\ Len(segments[i].words) = 7 =>
                          /\ Len(chunks) = 2
                          /\ Len(chunks[1]) = 4
                          /\ Len(chunks[2]) = 3

\* A segment of 7 words was chunked, none of its words cut by the cap.
C16_Witness ==
    /\ SrtWritten
    /\ \E i \in 1..Len(segments) :
          /\ ChunkedUncut(i)
          /\ Len(segments[i].words) = 7
          /\ Len(srt_chunks[i]) = 2

\* The minutes and seconds fields of a written time.
AssMinutes(t) == NumberOf(SubSeq(t, Len(t) - 7, Len(t) - 6))
AssSeconds(t) == NumberOf(SubSeq(t, Len(t) - 4, Len(t) - 3))
SrtMinutes(t) == NumberOf(SubSeq(t, Len(t) - 8, Len(t) - 7))
SrtSeconds(t) == NumberOf(SubSeq(t, Len(t) - 5, Len(t) - 4))

Distance(a, b) == IF a >= b THEN a - b ELSE b - a

\* C17: both formatters round the time to the nearest unit of their
\* precision (a centisecond, a millisecond) before splitting it into fields,
\* so that a carry reaches the seconds, minutes and hours and the minutes and
\* seconds fields are always below 60; 125.006 s is written 0:02:05.01 and
\* 00:02:05,006.
C17_RoundThenSplit ==
    /\ fmt_pc \in {"ass", "srt"} =>
          /\ 2 * Distance(AssTicks(ass_time), stamp) <= 100
          /\ AssMinutes(ass_time) < 60
          /\ AssSeconds(ass_time) < 60
          /\ stamp = 1250060 =>
                ass_time = <<"0",":","0","2",":","0","5",".","0","1">>
    /\ fmt_pc = "srt" =>
          /\ 2 * Distance(SrtTicks(srt_time), stamp) <= 10
          /\ SrtMinutes(srt_time) < 60
          /\ SrtSeconds(srt_time) < 60
          /\ stamp = 1250060 =>
                srt_time = <<"0","0",":","0","2",":","0","5",",","0","0","6">>

\* A time just below a full hour was formatted, and the carry of the
\* rounding went through seconds and minutes into the hours in both formats.
C17_Witness ==
    /\ fmt_pc = "srt"
    /\ stamp = (59 * 60 + 59) * 10000 + 9995
    /\ ass_time = <<"1",":","0","0",":","0","0",".","0","0">>
    /\ srt_time = <<"0","1",":","0","0",":","0","0",",","0","0","0">>

\* C18: at most one job's files occupy a variant's working paths at a time:
\* however two overlapping requests of the same variant interleave, no job
\* verifies, transcribes or renders an audio, image or subtitle file that
\* the other job wrote or removed.
C18_NoForeignFile == foreign = {}

\* The requests of the current call of one kind.
RequestsOfKind(k) == {i \in 1..Len(requests) : requests[i].kind = k}

\* A bypass request is the step being taken.
BypassIssued ==
    /\ Len(requests') = Len(requests) + 1
    /\ requests'[Len(requests')].kind = "bypass"

FirstResponseIsInterstitial ==
    /\ dl_pc = "bypass"
    /\ response.html
    /\ response.warning
    /\ response.link
    /\ requests[Len(requests)] =
          [kind |-> "candidate", n |-> attempt,
           url |-> download_urls(dl_url, file_id)[attempt]]

\* A candidate attempt ends with an HTML response: at the content-type test
\* of the first response or of the bypass response.
EndsOnHtml ==
    \/ dl_pc = "inspect" /\ response.html /\ ~(response.warning /\ response.link)
    \/ dl_pc = "bypass" /\ ~caught' /\ response'.html

\* What is left of a call: candidates still to try, and steps still to take
\* in the current one.
StepsLeft ==
    CASE dl_pc = "start"   -> 6 * Len(CandidateForms) + 2
      [] dl_pc = "drive"   -> 6 * Len(CandidateForms) + 1
      [] dl_pc = "regular" -> 1
      [] dl_pc = "request" -> 6 * (Len(CandidateForms) - attempt) + 4
      [] dl_pc = "inspect" -> 6 * (Len(CandidateForms) - attempt) + 3
      [] dl_pc = "bypass"  -> 6 * (Len(CandidateForms) - attempt) + 2
      [] dl_pc = "write"   -> 6 * (Len(CandidateForms) - attempt) + 1
      [] OTHER             -> 0

Progresses == StepsLeft' < StepsLeft

\* C19: within one Drive candidate a bypass request is issued at most once,
\* and only when the first response is HTML with the warning marker and an
\* embedded download link; an attempt whose last response is HTML writes
\* nothing to the destination and is followed by the next candidate (or by
\* the return of False after the last); a call issues at most 4 candidate
\* and at most 4 bypass requests, every step brings it nearer to its return
\* and it is never stuck before it.
C19_BypassOnceAndTerminates ==
    /\ [](\A i \in RequestsOfKind("bypass") :
            /\ i > 1
            /\ requests[i - 1].kind = "candidate"
            /\ requests[i - 1].n = requests[i].n)
    /\ [](\A i \in RequestsOfKind("candidate") : \A j \in RequestsOfKind("candidate") :
            i < j => requests[i].n < requests[j].n)
    /\ [](/\ Cardinality(RequestsOfKind("candidate")) <= 4
          /\ Cardinality(RequestsOfKind("bypass")) <= 4)
    /\ [][BypassIssued => FirstResponseIsInterstitial]_vars
    /\ [][EndsOnHtml => (fs' = fs /\ NextCandidateOrFalse)]_vars
    /\ [][Progresses]_vars
    /\ [](StepsLeft >= 0)
    /\ [](~Returned => ENABLED NextFetch)

\* A call went through all four candidates and followed a bypass link in
\* each of them before it returned.
C19_Witness ==
    /\ Returned
    /\ Cardinality(RequestsOfKind("candidate")) = 4
    /\ Cardinality(RequestsOfKind("bypass")) = 4

\* The words a fallback cue stands for: the words of its chunk, or the one
\* word of a one-word segment.
CueWords(cue) ==
    IF cue.chunk > 0 THEN srt_chunks[cue.seg][cue.chunk]
    ELSE segments[cue.seg].words

CueMatchesWords(cue) ==
    LET ws == CueWords(cue)
    IN  /\ ws # << >>
        /\ cue.start_time = format_srt_time_precise(ws[1].start)
        /\ cue.end_time = format_srt_time_precise(
                IF max_time # NoCap /\ ws[Len(ws)].end > max_time
                THEN max_time ELSE ws[Len(ws)].end)
        /\ cue.text = JoinWords(ws)

\* C20: every cue create_enhanced_srt writes for a segment with one or more
\* timed words starts at the start of the first word of its chunk, ends at
\* the end of the last word of its chunk clamped to the cap, and its text is
\* the texts of the chunk's words put together with nothing in between.
C20_CueFromChunkWords ==
    SrtWritten =>
        \A c \in 1..Len(srt_cues) :
            Len(segments[srt_cues[c].seg].words) >= 1 => CueMatchesWords(srt_cues[c])

\* C21: every chunk create_enhanced_srt forms for a segment with word-level
\* timing has between 3 and 5 words, whatever the number of words of the
\* segment.
C21_ChunksOfThreeToFive ==
    SrtWritten =>
        \A i \in 1..Len(segments) :
            \A c \in 1..Len(srt_chunks[i]) :
                /\ Len(srt_chunks[i][c]) >= 3
                /\ Len(srt_chunks[i][c]) <= 5

\* C22: in the track either synthesizer writes from the cleaned transcript,
\* with or without a cap, every cue has start <= end and the cues are in
\* non-decreasing order of their start times.
C22_CuesOrdered ==
    /\ KaraokeWritten =>
          \A c \in 1..Len(ass_cues) :
              /\ AssTicks(ass_cues[c].start_time) <= AssTicks(ass_cues[c].end_time)
              /\ c > 1 => AssTicks(ass_cues[c - 1].start_time)
                             <= AssTicks(ass_cues[c].start_time)
    /\ SrtWritten =>
          \A c \in 1..Len(srt_cues) :
              /\ SrtTicks(srt_cues[c].start_time) <= SrtTicks(srt_cues[c].end_time)
              /\ c > 1 => SrtTicks(srt_cues[c - 1].start_time)
                             <= SrtTicks(srt_cues[c].start_time)

\* Both tracks were written with a cap from two segments; the fallback track
\* has three or more cues and the end of its last cue was cut at the cap.
C22_Witness ==
    /\ SrtWritten
    /\ max_time # NoCap
    /\ Len(ass_cues) >= 2
    /\ Len(srt_cues) >= 3
    /\ srt_cues[Len(srt_cues)].end_time = format_srt_time_precise(max_time)
    /\ srt_cues[Len(srt_cues)].start_time # srt_cues[Len(srt_cues)].end_time

\* C23: the indices of the cues create_enhanced_srt writes are 1, 2, ..., n
\* in the order written, also when a chunk or a segment without text is
\* skipped and when chunked segments and segments written as one cue are
\* mixed.
C23_IndicesSequential ==
    SrtWritten => \A c \in 1..Len(srt_cues) : srt_cues[c].index = c

\* A chunk without text was skipped in a chunked segment, a later chunk of
\* that segment was written, and a later segment was written as one cue.
C23_Witness ==
    /\ SrtWritten
    /\ \E i \in 1..Len(segments) :
          /\ \E c \in 1..Len(srt_chunks[i]) : JoinWords(srt_chunks[i][c]) = << >>
          /\ \E c \in 1..Len(srt_cues) : srt_cues[c].seg = i /\ srt_cues[c].chunk > 0
          /\ \E c \in 1..Len(srt_cues) : srt_cues[c].seg > i /\ srt_cues[c].chunk = 0

\* A word with both times present and end > start.
TimedWord(w) == w.start # NoTime /\ w.end # NoTime /\ w.end > w.start

HasTimedWord(sg) == \E j \in 1..Len(sg.words) : TimedWord(sg.words[j])

\* The elements of s that satisfy P, in the order they have in s.
KeptInOrder(s, P(_)) ==
    LET kept   == {i \in 1..Len(s) : P(s[i])}
        nth(k) == CHOOSE i \in kept : Cardinality({x \in kept : x < i}) = k - 1
    IN  [k \in 1..Cardinality(kept) |-> s[nth(k)]]

\* C24: the segments transcribe_audio hands on each have at least one word,
\* every word has both times with end > start, and they are exactly the
\* recognized segments that have such a word, in the recognized order, each
\* with its valid words in their order; segments without a valid word, and
\* segments without words, are gone.
C24_OnlyValidWordsHandedOn ==
    sub_pc \in {"transcribed", "karaoke_written", "srt_written"} =>
        LET kept == KeptInOrder(recognized, HasTimedWord)
        IN  /\ Len(segments) = Len(kept)
            /\ \A k \in 1..Len(segments) :
                  /\ Len(segments[k].words) >= 1
                  /\ \A j \in 1..Len(segments[k].words) :
                        /\ segments[k].words[j].start # NoTime
                        /\ segments[k].words[j].end # NoTime
                        /\ segments[k].words[j].end > segments[k].words[j].start
                  /\ k <= Len(kept) =>
                        /\ segments[k].words = KeptInOrder(kept[k].words, TimedWord)
                        /\ segments[k].start = kept[k].start
                        /\ segments[k].end = kept[k].end
                        /\ segments[k].text = kept[k].text

\* Of two recognized segments the second had no words and was dropped, and
\* the first was handed on without its zero-length first word.
C24_Witness ==
    /\ sub_pc = "transcribed"
    /\ Len(recognized) = 2
    /\ recognized[2].words = << >>
    /\ Len(recognized[1].words) >= 3
    /\ recognized[1].words[1].end = recognized[1].words[1].start
    /\ Len(segments) = 1
    /\ Len(segments[1].words) = Len(recognized[1].words) - 1

\* C25: when the renderer executable is not found, the job is Failed with the
\* executable-missing error, no command line has been built and no external
\* process has been launched, at any later moment of that job.
C25_MissingExecutableFailsFast ==
    ffmpeg_exists = "missing" =>
        /\ pc = "Failed"
        /\ error = <<"FFmpeg executable not found">>
        /\ cmd = NoCmd
        /\ proc = NoProc
        /\ trace[Len(trace)] = [step |-> "render", status |-> "running"]

\* A short-variant job with its subtitle track ready failed at the executable
\* check.
C25_Witness ==
    /\ ffmpeg_exists = "missing"
    /\ pc = "Failed"
    /\ variant = "short"
    /\ subs_path = subs_path_ass(variant)

\* The karaoke attempt of the job raised and the fallback synthesis has run.
KaraokeFailedFallbackRan ==
    /\ \E k \in 1..Len(trace) : trace[k] = [step |-> "karaoke", status |-> "failed"]
    /\ \E k \in 1..Len(trace) : trace[k].step = "fallback"

\* C26: once the fallback synthesis has run after a karaoke synthesis that
\* raised, no karaoke file of the failed attempt is left among the working
\* files, and the render command does not name the karaoke file.
C26_PartialKaraokeDiscarded ==
    KaraokeFailedFallbackRan =>
        /\ ~Exists(fs[subs_path_ass(variant)])
        /\ \A n \in 1..Len(cmd.vf) : cmd.vf[n].path # subs_path_ass(variant)

\* The handler stands before its first fetch.
BeforeFirstFetch == pc = "FetchAudio" /\ dl_pc = "idle" /\ trace = << >>

\* Some file of ./tmp is gone after the step.
FileRemoved == \E p \in AllPaths : Exists(fs[p]) /\ ~Exists(fs'[p])

\* C27: in any sequence of jobs of one variant served one after the other,
\* whatever the earlier jobs left behind, every audio, image or subtitle file
\* a job verifies, transcribes or passes to the renderer was written during
\* that job; none of the five working files exists when the job stands
\* before its first fetch; and a file is removed only by the entry of a
\* handler, never when a job ends.
C27_JobReadsOnlyItsOwnFiles ==
    /\ [](stale = {})
    /\ [](BeforeFirstFetch => \A p \in WorkingPaths(variant) : ~Exists(fs[p]))
    /\ [][FileRemoved => (pc \in {"Idle", "Returned"} /\ pc' = "FetchAudio")]_vars

\* A job whose entry removed a partial file of an earlier job has verified
\* and transcribed its audio and handed audio, image and track to the renderer.
C27_Witness ==
    /\ removed_partial
    /\ pc = "Launch"
    /\ variant = "short"
    /\ Len(cmd.vf) = 2
    /\ {audio_path(variant), image_path(variant), subs_path} \subseteq fresh
    /\ stale = {}

\* The sum of the \k values of the first n parts of a karaoke line.
RECURSIVE HighlightSum(_, _)
HighlightSum(parts, n) ==
    IF n = 0 THEN 0 ELSE HighlightSum(parts, n - 1) + parts[n].k

\* C28: in every karaoke line built from timed words, the highlight of each
\* word begins at the word's start: the start of the line plus the \k
\* values of the words before it is the word's start time, to within one
\* centisecond per preceding word; also with gaps between the words, words
\* below the 0.1 s floor and a first word that starts after the segment.
C28_HighlightBeginsAtWordStart ==
    KaraokeWritten =>
        \A c \in 1..Len(ass_cues) :
            LET ws == HighlightedWords(segments[ass_cues[c].seg])
                parts == ass_cues[c].parts
            IN  \A j \in 1..Len(parts) :
                    j <= Len(ws) =>
                        Distance(AssTicks(ass_cues[c].start_time)
                                   + HighlightSum(parts, j - 1) * TicksPerCenti,
                                 ws[j].start)
                            <= (j - 1) * TicksPerCenti

\* C29: from the moment a job is Done until the response that streams its
\* output file has been sent, no step removes or overwrites the output file,
\* however a later request of the same variant is interleaved with the
\* sending of the response.
C29_OutputKeptWhileStreaming ==
    [][\A j \in RaceJobs :
          jobs[j].pc \in {"Done", "Streaming"}
            => owner'[video_path(RaceVariant)] = owner[video_path(RaceVariant)]]_vars

====
